---- MODULE Spec2Model ----
(***************************************************************************)
(* A model of the pricing and capacity-planning core of the project        *)
(* management tools: TimelineGenerator (timeline/timeline_generator.py),   *)
(* PricingEngine (spec_sheet/pricing/pricing_engine.py), ConfigManager     *)
(* (spec_sheet/settings/config_manager.py) and RiskAssessor                *)
(* (spec_sheet/settings/risk_assessor.py).                                 *)
(*                                                                         *)
(* Numbers.  The Python code computes with floats.  The model computes     *)
(* with exact rationals <<n, d>> (d > 0, lowest terms), so every formula   *)
(* below is a statement about the arithmetic the code writes down, not     *)
(* about binary rounding.                                                  *)
(* Dates are day numbers; day 0 is a Monday, so weekday(d) = d % 7 with    *)
(* Monday = 0 as in datetime.date.weekday().                               *)
(* Strings that the code takes apart (type-of-work values, descriptions)   *)
(* are sequences of one-character strings.                                 *)
(***************************************************************************)
EXTENDS Integers, Sequences, FiniteSets, TLC

VARIABLES
    \* ---- TimelineGenerator (self.*) ----
    team_members,            \* self.team_members
    holidays,                \* self.holidays
    sprints,                 \* self.sprints
    project_start_date,      \* self.project_start_date: <<>> is None, <<d>> a date
    project_end_date,        \* self.project_end_date
    \* ---- generate_sprint_timeline: arguments, locals, position ----
    pc,                      \* "idle" | "while" | "return" | "done"
    args,                    \* [start_date, total_story_points, sprint_length_weeks]
    loc,                     \* [sprints, current_date, remaining_story_points, sprint_number]
    ret,                     \* the returned list
    \* ---- PricingEngine, ConfigManager, RiskAssessor ----
    engines,                 \* the PricingEngine objects under comparison
    quotes,                  \* what calculate_prices returned, per engine
    totals,                  \* what calculate_epic_totals returned, per engine
    call,                    \* the arguments of the last call
    dod_config,              \* ConfigManager.dod_config
    dod_result,              \* what get_dod_impacts / calculate_dod_impact_total returned
    risk_priority,           \* RiskAssessor.risk_priority, in dict order
    risk_result,             \* what determine_risk_profile returned
    \* ---- MoscowManager ----
    moscow_result,           \* what get_moscow_priority returned
    \* ---- TimelineGenerator.calculate_working_days / _effective_capacity ----
    days_result,             \* what the last of the two calls returned
    \* ---- SprintCalculator (flat allocation) ----
    flat_result,             \* what its generate_sprint_timeline returned
    \* ---- sprint_planner.Team and SprintPlanner ----
    team,                    \* the Team object
    estimates                \* what the last call on the team returned

vars == <<team_members, holidays, sprints, project_start_date, project_end_date,
          pc, args, loc, ret, engines, quotes, totals, call, dod_config,
          dod_result, risk_priority, risk_result, moscow_result, days_result,
          flat_result, team, estimates>>

timelineVars == <<team_members, holidays, sprints, project_start_date,
                  project_end_date, pc, args, loc, ret>>
pricingVars == <<engines, quotes, totals>>
configVars == <<dod_config, dod_result>>
riskVars == <<risk_priority, risk_result>>
moscowVars == <<moscow_result>>
\* the components modelled after the risk assessor
capacityVars == <<days_result>>
flatVars == <<flat_result>>
plannerVars == <<team, estimates>>
restVars == <<moscowVars, capacityVars, flatVars, plannerVars>>

(***************************************************************************)
(* Exact rational arithmetic                                               *)
(***************************************************************************)
Abs(x) == IF x < 0 THEN -x ELSE x

RECURSIVE GCD(_, _)
GCD(a, b) == IF b = 0 THEN a ELSE GCD(b, a % b)

\* The rational n/d (d # 0) in lowest terms with a positive denominator.
Q(n, d) ==
    LET s == IF d < 0 THEN -1 ELSE 1
        g == GCD(Abs(n), Abs(d))
    IN  IF n = 0 THEN <<0, 1>> ELSE <<(s * n) \div g, (s * d) \div g>>

I(n) == <<n, 1>>
QAdd(x, y) == Q(x[1] * y[2] + y[1] * x[2], x[2] * y[2])
QSub(x, y) == Q(x[1] * y[2] - y[1] * x[2], x[2] * y[2])
QMul(x, y) == Q(x[1] * y[1], x[2] * y[2])
QDiv(x, y) == Q(x[1] * y[2], x[2] * y[1])
QLe(x, y) == x[1] * y[2] <= y[1] * x[2]
QLt(x, y) == x[1] * y[2] < y[1] * x[2]
\* Python's min(a, b) and max(a, b): the first argument on a tie.
QMin(x, y) == IF QLt(y, x) THEN y ELSE x
QMax(x, y) == IF QLt(x, y) THEN y ELSE x

\* the sum of s[lo..hi], split in halves to keep the evaluation shallow
RECURSIVE QSumRange(_, _, _)
QSumRange(s, lo, hi) ==
    IF lo > hi THEN I(0)
    ELSE IF lo = hi THEN s[lo]
    ELSE LET mid == (lo + hi) \div 2
         IN  QAdd(QSumRange(s, lo, mid), QSumRange(s, mid + 1, hi))
QSum(s) == QSumRange(s, 1, Len(s))

Range(s) == {s[i] : i \in 1..Len(s)}

(***************************************************************************)
(* TimelineGenerator: inputs of the model                                  *)
(***************************************************************************)
MaxTeam == 2          \* team members added to one generator
MaxHolidays == 1      \* holidays added to one generator
BigTotal == 600       \* a backlog one full-time member cannot finish in 50 sprints

MonFri == {0, 1, 2, 3, 4}   \* TeamMemberInfo.working_days default
MonThu == {0, 1, 2, 3}

\* TeamMemberInfo(name, fte, story_points_per_sprint, working_days, custom_holidays)
Alice == [name |-> "Alice", fte |-> I(1), story_points_per_sprint |-> I(10),
          working_days |-> MonFri, custom_holidays |-> {}]
Bob == [name |-> "Bob", fte |-> Q(8, 10), story_points_per_sprint |-> I(5),
        working_days |-> MonThu, custom_holidays |-> {9}]
\* story points per sprint is any float the user types: here a negative one
Neg == [name |-> "Neg", fte |-> I(1), story_points_per_sprint |-> I(-4),
        working_days |-> MonFri, custom_holidays |-> {}]
MemberChoices == {Alice, Bob, Neg}

\* HolidayInfo(date, is_national, affected_members)
HolidayChoices ==
    { [date |-> 1, is_national |-> TRUE, affected_members |-> <<>>],
      [date |-> 8, is_national |-> FALSE, affected_members |-> <<"Alice">>],
      [date |-> 2, is_national |-> TRUE, affected_members |-> <<"Bob">>] }

StartDates == {0, 3}
SprintWeeks == {1, 2}
TotalChoices == {I(0), I(25), Q(15, 2), I(BigTotal)}

(***************************************************************************)
(* TimelineGenerator.calculate_working_days                                *)
(***************************************************************************)
weekday(d) == d % 7

\* the inner loop over self.holidays, with its break
\* a test under which every holiday on the date counts for every member
holiday_hits_everyone(hs, current_date, member) ==
    \E i \in 1..Len(hs) : hs[i].date = current_date

\* a test that looks at the newest holiday only
holiday_hits_newest(hs, current_date, member) ==
    /\ hs # <<>>
    /\ hs[Len(hs)].date = current_date
    /\ \/ hs[Len(hs)].affected_members = <<>>
       \/ member.name \in Range(hs[Len(hs)].affected_members)

holiday_hits(hs, current_date, member) ==
    \E i \in 1..Len(hs) :
        /\ hs[i].date = current_date
        /\ \/ hs[i].affected_members = <<>>
           \/ member.name \in Range(hs[i].affected_members)

is_holiday(hs, current_date, member) ==
    \/ holiday_hits(hs, current_date, member)
    \/ current_date \in member.custom_holidays

RECURSIVE calculate_working_days(_, _, _, _)
calculate_working_days(hs, start_date, end_date, member) ==
    IF start_date <= end_date
    THEN (IF weekday(start_date) \in member.working_days
             /\ ~is_holiday(hs, start_date, member)
          THEN 1 ELSE 0)
         + calculate_working_days(hs, start_date + 1, end_date, member)
    ELSE 0

(***************************************************************************)
(* TimelineGenerator.calculate_effective_capacity                          *)
(***************************************************************************)
baseline_sprint_days == 10

calculate_effective_capacity_noclamp(hs, member, start_date, end_date) ==
    LET total_days == (end_date - start_date) + 1
        working_days == calculate_working_days(hs, start_date, end_date, member)
    IN  IF total_days > 0
        THEN QMul(QMul(member.story_points_per_sprint,
                       Q(working_days, baseline_sprint_days)),
                  member.fte)
        ELSE I(0)

\* a capacity taken from the calendar days of the range, holidays or not
calculate_effective_capacity_calendar(hs, member, start_date, end_date) ==
    LET total_days == (end_date - start_date) + 1
    IN  IF total_days > 0
        THEN QMax(I(0), QMul(QMul(member.story_points_per_sprint,
                                  Q(total_days, 14)),
                             member.fte))
        ELSE I(0)

calculate_effective_capacity(hs, member, start_date, end_date) ==
    LET total_days == (end_date - start_date) + 1
        working_days == calculate_working_days(hs, start_date, end_date, member)
    IN  IF total_days > 0
        THEN QMax(I(0), QMul(QMul(member.story_points_per_sprint,
                                  Q(working_days, baseline_sprint_days)),
                             member.fte))
        ELSE I(0)

\* the loop "for member in self.team_members: team_capacity += ..."
RECURSIVE team_capacity(_, _, _, _)
team_capacity(hs, members, sprint_start, sprint_end) ==
    IF members = <<>> THEN I(0)
    ELSE QAdd(team_capacity(hs, SubSeq(members, 1, Len(members) - 1),
                            sprint_start, sprint_end),
              calculate_effective_capacity(hs, members[Len(members)],
                                           sprint_start, sprint_end))

(***************************************************************************)
(* TimelineGenerator: operations                                           *)
(***************************************************************************)
max_sprints == 50     \* "if sprint_number > 50: break"

NoLocals == [sprints |-> <<>>, current_date |-> 0,
             remaining_story_points |-> I(0), sprint_number |-> 0]
NoArgs == [start_date |-> 0, total_story_points |-> I(0), sprint_length_weeks |-> 0]

TimelineInit ==
    /\ team_members = <<>>
    /\ holidays = <<>>
    /\ sprints = <<>>
    /\ project_start_date = <<>>
    /\ project_end_date = <<>>
    /\ pc = "idle"
    /\ args = NoArgs
    /\ loc = NoLocals
    /\ ret = <<>>

add_team_member(member) ==
    /\ pc = "idle"
    /\ Len(team_members) < MaxTeam
    /\ team_members' = Append(team_members, member)
    /\ UNCHANGED <<holidays, sprints, project_start_date, project_end_date,
                   pc, args, loc, ret>>

add_custom_holiday(holiday) ==
    /\ pc = "idle"
    /\ Len(holidays) < MaxHolidays
    /\ holidays' = Append(holidays, holiday)
    /\ UNCHANGED <<team_members, sprints, project_start_date, project_end_date,
                   pc, args, loc, ret>>

\* a call that starts the loop whether or not there is a team
generate_call_unchecked(start_date, total_story_points, sprint_length_weeks) ==
    /\ pc = "idle"
    /\ args' = [start_date |-> start_date,
                total_story_points |-> total_story_points,
                sprint_length_weeks |-> sprint_length_weeks]
    /\ loc' = [sprints |-> <<>>,
               current_date |-> start_date,
               remaining_story_points |-> total_story_points,
               sprint_number |-> 1]
    /\ pc' = "while"
    /\ ret' = ret
    /\ UNCHANGED <<team_members, holidays, sprints, project_start_date,
                   project_end_date>>

\* generate_sprint_timeline, lines 264-279: the empty-team return and the
\* initialisation of the locals
generate_call(start_date, total_story_points, sprint_length_weeks) ==
    /\ pc = "idle"
    /\ args' = [start_date |-> start_date,
                total_story_points |-> total_story_points,
                sprint_length_weeks |-> sprint_length_weeks]
    /\ IF team_members = <<>>
       THEN /\ ret' = <<>>
            /\ pc' = "done"
            /\ loc' = loc
       ELSE /\ loc' = [sprints |-> <<>>,
                       current_date |-> start_date,
                       remaining_story_points |-> total_story_points,
                       sprint_number |-> 1]
            /\ pc' = "while"
            /\ ret' = ret
    /\ UNCHANGED <<team_members, holidays, sprints, project_start_date,
                   project_end_date>>

\* a scheduler that always books the full capacity
sprint_story_points_full(remaining_story_points, capacity) == capacity

\* a scheduler that books at most half of the capacity
sprint_story_points_half(remaining_story_points, capacity) ==
    QMin(remaining_story_points, QDiv(capacity, I(2)))

sprint_story_points_of(remaining_story_points, capacity) ==
    QMin(remaining_story_points, capacity)

\* a cursor that restarts on the last day of the sprint before
next_sprint_start_overlap(sprint_end) == sprint_end

next_sprint_start(sprint_end) == sprint_end + 1

\* a safety break that is one sprint late
cap_reached_late(sprint_number) == sprint_number > max_sprints + 1

cap_reached(sprint_number) == sprint_number > max_sprints

\* one pass of the while loop, lines 281-314
while_body ==
    /\ pc = "while"
    /\ QLt(I(0), loc.remaining_story_points)
    /\ LET sprint_length_days == args.sprint_length_weeks * 7
           sprint_start == loc.current_date
           sprint_end == loc.current_date + (sprint_length_days - 1)
           capacity == team_capacity(holidays, team_members, sprint_start, sprint_end)
           sprint_story_points ==
               sprint_story_points_of(loc.remaining_story_points, capacity)
           sprint == [number |-> loc.sprint_number,
                      start_date |-> sprint_start,
                      end_date |-> sprint_end,
                      story_points |-> sprint_story_points,
                      team_velocity |-> capacity]
       IN  /\ loc' = [sprints |-> Append(loc.sprints, sprint),
                      current_date |-> next_sprint_start(sprint_end),
                      remaining_story_points |->
                          QSub(loc.remaining_story_points, sprint_story_points),
                      sprint_number |-> loc.sprint_number + 1]
           /\ pc' = IF cap_reached(loc.sprint_number + 1) THEN "return" ELSE "while"
    /\ UNCHANGED <<team_members, holidays, sprints, project_start_date,
                   project_end_date, args, ret>>

\* the loop condition fails
while_exit ==
    /\ pc = "while"
    /\ ~QLt(I(0), loc.remaining_story_points)
    /\ pc' = "return"
    /\ UNCHANGED <<team_members, holidays, sprints, project_start_date,
                   project_end_date, args, loc, ret>>

\* lines 316-323
generate_return ==
    /\ pc = "return"
    /\ sprints' = loc.sprints
    /\ project_start_date' = <<args.start_date>>
    /\ project_end_date' = IF loc.sprints # <<>>
                           THEN <<loc.sprints[Len(loc.sprints)].end_date>>
                           ELSE <<args.start_date>>
    /\ ret' = loc.sprints
    /\ pc' = "done"
    /\ UNCHANGED <<team_members, holidays, args, loc>>

(***************************************************************************)
(* The other components idle while the timeline runs                       *)
(***************************************************************************)
PricingIdle == /\ engines = <<>> /\ quotes = <<>> /\ totals = <<>>
ConfigIdle == /\ dod_config = <<>> /\ dod_result = <<>>
RiskIdle == /\ risk_priority = <<>> /\ risk_result = <<>>
CallIdle == call = <<>>
MoscowIdle == moscow_result = <<>>
CapacityIdle == days_result = <<>>
FlatIdle == flat_result = <<>>
PlannerIdle == team = <<>> /\ estimates = <<>>
RestIdle == MoscowIdle /\ CapacityIdle /\ FlatIdle /\ PlannerIdle

Init ==
    /\ TimelineInit
    /\ PricingIdle /\ ConfigIdle /\ RiskIdle /\ RestIdle /\ CallIdle

Others == <<pricingVars, configVars, riskVars, restVars, call>>

AddTeamMember == \E member \in MemberChoices : add_team_member(member) /\ UNCHANGED Others
AddCustomHoliday == \E holiday \in HolidayChoices : add_custom_holiday(holiday) /\ UNCHANGED Others
GenerateCall ==
    \E start_date \in StartDates, total \in TotalChoices, weeks \in SprintWeeks :
        generate_call(start_date, total, weeks) /\ UNCHANGED Others
WhileBody == while_body /\ UNCHANGED Others
WhileExit == while_exit /\ UNCHANGED Others
GenerateReturn == generate_return /\ UNCHANGED Others

Next ==
    \/ AddTeamMember
    \/ AddCustomHoliday
    \/ GenerateCall
    \/ WhileBody
    \/ WhileExit
    \/ GenerateReturn

Spec == Init /\ [][Next]_vars


(***************************************************************************)
(* Claims about TimelineGenerator.generate_sprint_timeline                 *)
(***************************************************************************)
StoryPoints(schedule) == [i \in 1..Len(schedule) |-> schedule[i].story_points]

Returned == pc = "done" /\ team_members # <<>>

\* the team's capacity over a sprint's own date range, member by member
TeamVelocityOver(sprint) ==
    QSum([i \in 1..Len(team_members) |->
             calculate_effective_capacity(holidays, team_members[i],
                                          sprint.start_date, sprint.end_date)])

\* C1: with a non-empty team and total_story_points > 0, a returned schedule
\* of fewer than 50 sprints allocates exactly total_story_points in all.
C1_Conservation ==
    (Returned /\ QLt(I(0), args.total_story_points) /\ Len(ret) < max_sprints)
        => QSum(StoryPoints(ret)) = args.total_story_points

\* a three-sprint schedule whose last sprint takes the remainder
C1_Witness ==
    /\ Returned
    /\ QLt(I(0), args.total_story_points)
    /\ Len(ret) = 3
    /\ QLt(ret[3].story_points, ret[3].team_velocity)
    /\ QLt(ret[1].story_points, args.total_story_points)

\* C2: every sprint of a schedule, returned or under construction, holds
\* between 0 and its team_velocity story points, and its team_velocity is the
\* sum of the members' effective capacities over the sprint's own dates.
C2_WithinCapacity ==
    \A schedule \in {ret, loc.sprints} :
        \A i \in 1..Len(schedule) :
            /\ QLe(I(0), schedule[i].story_points)
            /\ QLe(schedule[i].story_points, schedule[i].team_velocity)
            /\ schedule[i].team_velocity = TeamVelocityOver(schedule[i])

\* a returned sprint with a holiday in its range and a member of negative
\* velocity on the team, filled to its capacity
C2_Witness ==
    /\ Returned
    /\ Len(ret) >= 2
    /\ Neg \in Range(team_members)
    /\ \E i \in 1..Len(holidays) :
           holidays[i].date \in ret[1].start_date .. ret[1].end_date
    /\ ret[1].story_points = ret[1].team_velocity
    /\ QLt(I(0), ret[1].team_velocity)
    /\ ret[1].team_velocity # ret[2].team_velocity

AllocatedSoFar == QSum(StoryPoints(loc.sprints))

C3_Bounded ==
    /\ Len(loc.sprints) <= max_sprints
    /\ Len(ret) <= max_sprints
    /\ pc \in {"idle", "while", "return", "done"}
    /\ pc = "while" => Len(loc.sprints) < max_sprints
    /\ (Returned /\ Len(ret) = max_sprints /\ QLt(I(0), loc.remaining_story_points))
           => QLt(QSum(StoryPoints(ret)), args.total_story_points)

\* C3: a started call ends, with at most 50 sprints: every pass of the loop
\* adds one sprint or leaves the loop, the loop is never entered with 50
\* sprints, and the code after the loop returns.  When the cap stops the
\* loop with backlog left, the schedule allocates less than the requested
\* total.  (The call has no raise statement: pc has no error position.)
C3_Step ==
    /\ pc = "while" =>
           /\ pc' \in {"while", "return"}
           /\ pc' = "while" => Len(loc'.sprints) = Len(loc.sprints) + 1
    /\ pc = "return" => pc' = "done"

C3_Terminates == []C3_Bounded /\ [][C3_Step]_vars

\* the cap stops a team that has no capacity in any sprint
C3_Witness ==
    /\ Returned
    /\ Len(ret) = max_sprints
    /\ \A i \in 1..Len(ret) : ret[i].team_velocity = I(0)
    /\ QLt(I(0), loc.remaining_story_points)

\* C4: the sprints are numbered 1..n, the first starts on start_date, each
\* ends sprint_length_weeks * 7 - 1 days after it starts, each later one
\* starts the day after the one before ends, and no date range repeats.
C4_GapFree ==
    \A schedule \in {ret, loc.sprints} :
        /\ \A i \in 1..Len(schedule) :
               /\ schedule[i].number = i
               /\ schedule[i].end_date =
                      schedule[i].start_date + (args.sprint_length_weeks * 7 - 1)
        /\ Len(schedule) >= 1 => schedule[1].start_date = args.start_date
        /\ \A i \in 1..(Len(schedule) - 1) :
               schedule[i + 1].start_date = schedule[i].end_date + 1
        /\ \A i, j \in 1..Len(schedule) :
               i # j => schedule[i].start_date # schedule[j].start_date

\* a sprint without capacity or allocation is followed by the next range
C4_Witness ==
    /\ Returned
    /\ Len(ret) >= 2
    /\ ret[1].team_velocity = I(0)
    /\ ret[1].story_points = I(0)
    /\ ret[2].start_date = ret[1].end_date + 1

(***************************************************************************)
(* PricingEngine: inputs of the model                                      *)
(***************************************************************************)
MaxStories == 3       \* stories in one calculate_epic_totals call, over all epics

\* settings_config["pricing"] and ["sprint_planning"]; the first of each set
\* is the value of _get_default_settings_config or of the test suite
PriceChoices == {I(130), I(100), I(0)}
VarianceChoices == {Q(3, 10), I(0), I(1)}
BaseHourlyRateChoices == {Q(12716, 100), I(100)}
HourlyRateDiscount == Q(1, 4)
HoursPerStoryPointChoices == {I(8)}
\* calculate_dod_impact_total: no items, the default configuration, a long
\* list of requirements, a list that adds up to more than 100%
DodImpactChoices == {I(0), Q(14, 100), Q(63, 100), Q(6, 5)}
StoryPointChoices == {I(0), Q(1, 2), I(5), I(13)}
RiskProfiles == {"proven", "experimental", "dependant"}
\* a profile name calculate_prices does not know
ProfileChoices == RiskProfiles \cup {"unknown"}

(***************************************************************************)
(* ConfigManager.get_hourly_rate, PricingEngine.__init__                   *)
(***************************************************************************)
get_hourly_rate(pricing_config) ==
    QMul(pricing_config.base_hourly_rate,
         QSub(I(1), pricing_config.hourly_rate_discount))

PricingEngine(settings_config, dod_impact_total) ==
    [base_story_point_price |-> settings_config.pricing.base_story_point_price,
     experimental_variance |-> settings_config.pricing.experimental_variance,
     hourly_rate |-> get_hourly_rate(settings_config.pricing),
     dod_impact_total |-> dod_impact_total,
     hours_per_story_point |-> settings_config.sprint_planning.hours_per_story_point]

SettingsChoices ==
    { [pricing |-> [base_story_point_price |-> price,
                    experimental_variance |-> variance,
                    base_hourly_rate |-> rate,
                    hourly_rate_discount |-> HourlyRateDiscount],
       sprint_planning |-> [hours_per_story_point |-> hours]] :
        price \in PriceChoices, variance \in VarianceChoices,
        rate \in BaseHourlyRateChoices, hours \in HoursPerStoryPointChoices }

(***************************************************************************)
(* PricingEngine.calculate_prices                                          *)
(***************************************************************************)
\* a quote that leaves the Definition-of-Done impact out
base_price_without_dod(engine, base_price) == base_price

base_price_with_dod_of(engine, base_price) ==
    QMul(base_price, QAdd(I(1), engine.dod_impact_total))

\* a lower bound that adds the variance
minimum_of_plus(engine, base_price_with_dod) ==
    QMul(base_price_with_dod, QAdd(I(1), engine.experimental_variance))

minimum_of(engine, base_price_with_dod) ==
    QMul(base_price_with_dod, QSub(I(1), engine.experimental_variance))

maximum_of(engine, base_price_with_dod) ==
    QMul(base_price_with_dod, QAdd(I(1), engine.experimental_variance))

\* an hourly estimate that takes the Definition-of-Done impact on top
hourly_estimate_with_dod(engine, story_points) ==
    QMul(QMul(QMul(story_points, engine.hours_per_story_point), engine.hourly_rate),
         QAdd(I(1), engine.dod_impact_total))

hourly_estimate_of(engine, story_points) ==
    LET estimated_hours == QMul(story_points, engine.hours_per_story_point)
    IN  QMul(estimated_hours, engine.hourly_rate)

calculate_prices(engine, story_points, risk_profile) ==
    LET base_price == QMul(story_points, engine.base_story_point_price)
        base_price_with_dod == base_price_with_dod_of(engine, base_price)
        prices == [base |-> base_price, base_with_dod |-> base_price_with_dod]
    IN  IF risk_profile = "proven"
        THEN prices @@ [fixed |-> base_price_with_dod]
        ELSE IF risk_profile = "experimental"
        THEN prices @@ [minimum |-> minimum_of(engine, base_price_with_dod),
                        maximum |-> maximum_of(engine, base_price_with_dod)]
        ELSE IF risk_profile = "dependant"
        THEN prices @@ [hourly_estimate |-> hourly_estimate_of(engine, story_points)]
        ELSE prices

\* prices.get(key, 0)
get_or_zero(prices, key) == IF key \in DOMAIN prices THEN prices[key] ELSE I(0)

(***************************************************************************)
(* PricingEngine.calculate_epic_totals                                     *)
(* A story is [story_points, risk_profile]: what get_story_points_func     *)
(* (<<>> for None, <<q>> for a number) and determine_risk_profile_func     *)
(* return for it.  epics[i] is what get_stories_func returns for epic i.   *)
(***************************************************************************)
\* "get_story_points_func(story) or 0"
story_points_or_zero(story) ==
    IF story.story_points = <<>> \/ story.story_points[1] = I(0)
    THEN I(0) ELSE story.story_points[1]

ZeroTotals == [total_proven_cost |-> I(0), total_experimental_min |-> I(0),
               total_experimental_max |-> I(0), total_dependant_estimate |-> I(0)]

\* the body of the inner loop, lines 57-67
add_story(engine, acc, story) ==
    LET story_points == story_points_or_zero(story)
        risk_profile == story.risk_profile
        prices == calculate_prices(engine, story_points, risk_profile)
    IN  IF risk_profile = "proven"
        THEN [acc EXCEPT !.total_proven_cost = QAdd(@, get_or_zero(prices, "fixed"))]
        ELSE IF risk_profile = "experimental"
        THEN [acc EXCEPT
                 !.total_experimental_min = QAdd(@, get_or_zero(prices, "minimum")),
                 !.total_experimental_max = QAdd(@, get_or_zero(prices, "maximum"))]
        ELSE IF risk_profile = "dependant"
        THEN [acc EXCEPT
                 !.total_dependant_estimate =
                     QAdd(@, get_or_zero(prices, "hourly_estimate"))]
        ELSE acc

RECURSIVE add_stories(_, _, _, _)
add_stories(engine, acc, stories, n) ==
    IF n = 0 THEN acc
    ELSE add_story(engine, add_stories(engine, acc, stories, n - 1), stories[n])

RECURSIVE add_epics(_, _, _, _)
add_epics(engine, acc, epics, n) ==
    IF n = 0 THEN acc
    ELSE add_stories(engine, add_epics(engine, acc, epics, n - 1),
                     epics[n], Len(epics[n]))

\* a grand total that takes the lower experimental bound
grand_total_best_case(proven, experimental_min, experimental_max, dependant) ==
    QAdd(QAdd(proven, experimental_min), dependant)

grand_total_of(proven, experimental_min, experimental_max, dependant) ==
    QAdd(QAdd(proven, experimental_max), dependant)

calculate_epic_totals(engine, epics) ==
    LET acc == add_epics(engine, ZeroTotals, epics, Len(epics))
    IN  [proven |-> acc.total_proven_cost,
         experimental_min |-> acc.total_experimental_min,
         experimental_max |-> acc.total_experimental_max,
         dependant |-> acc.total_dependant_estimate,
         grand_total |-> grand_total_of(acc.total_proven_cost,
                                        acc.total_experimental_min,
                                        acc.total_experimental_max,
                                        acc.total_dependant_estimate)]

(***************************************************************************)
(* PricingEngine.calculate_prices on two engines built from the same       *)
(* settings, with Definition-of-Done totals of their own                   *)
(***************************************************************************)
TimelineIdle ==
    /\ team_members = <<>> /\ holidays = <<>> /\ sprints = <<>>
    /\ project_start_date = <<>> /\ project_end_date = <<>>
    /\ pc = "idle" /\ args = NoArgs /\ loc = NoLocals /\ ret = <<>>

PricingInit ==
    /\ \E settings_config \in SettingsChoices, dod1 \in DodImpactChoices,
          dod2 \in DodImpactChoices :
           engines = <<PricingEngine(settings_config, dod1),
                       PricingEngine(settings_config, dod2)>>
    /\ quotes = <<>>
    /\ totals = <<>>
    /\ call = <<>>
    /\ TimelineIdle /\ ConfigIdle /\ RiskIdle /\ RestIdle

CalculatePrices ==
    /\ \E story_points \in StoryPointChoices, risk_profile \in ProfileChoices :
           /\ call' = [op |-> "calculate_prices", story_points |-> story_points,
                       risk_profile |-> risk_profile]
           /\ quotes' = [i \in 1..Len(engines) |->
                            calculate_prices(engines[i], story_points, risk_profile)]
    /\ UNCHANGED <<engines, totals, timelineVars, configVars, riskVars, restVars>>

PricingNext == CalculatePrices

SpecPricing == PricingInit /\ [][PricingNext]_vars

Priced(risk_profile) ==
    /\ call # <<>>
    /\ call.op = "calculate_prices"
    /\ call.risk_profile = risk_profile

\* C5: the hourly estimate of a dependant item is story_points *
\* hours_per_story_point * hourly_rate, and two engines that differ only in
\* dod_impact_total return the same hourly estimate for the same story points.
C5_DependantIgnoresDod ==
    Priced("dependant") =>
        /\ quotes[1].hourly_estimate =
               QMul(call.story_points,
                    QMul(engines[1].hours_per_story_point, engines[1].hourly_rate))
        /\ quotes[1].hourly_estimate = quotes[2].hourly_estimate

\* two engines with different Definition-of-Done totals, which do differ in
\* base_with_dod, priced a dependant item
C5_Witness ==
    /\ Priced("dependant")
    /\ engines[1].dod_impact_total # engines[2].dod_impact_total
    /\ [engines[1] EXCEPT !.dod_impact_total = I(0)]
           = [engines[2] EXCEPT !.dod_impact_total = I(0)]
    /\ quotes[1].base_with_dod # quotes[2].base_with_dod
    /\ QLt(I(0), quotes[1].hourly_estimate)

\* C6: for an experimental item minimum = base_with_dod * (1 - variance) and
\* maximum = base_with_dod * (1 + variance); with story points, base price
\* and quality multiplier >= 0 and variance in [0, 1] this gives
\* minimum <= base_with_dod <= maximum and
\* maximum - minimum = 2 * variance * base_with_dod.
C6_ExperimentalBounds ==
    Priced("experimental") =>
        \A i \in 1..Len(engines) :
            LET variance == engines[i].experimental_variance
                q == quotes[i]
            IN  /\ q.minimum = QMul(q.base_with_dod, QSub(I(1), variance))
                /\ q.maximum = QMul(q.base_with_dod, QAdd(I(1), variance))
                /\ ( /\ QLe(I(0), call.story_points)
                     /\ QLe(I(0), engines[i].base_story_point_price)
                     /\ QLe(I(0), engines[i].dod_impact_total)
                     /\ QLe(I(0), variance) /\ QLe(variance, I(1)) )
                   => /\ QLe(q.minimum, q.base_with_dod)
                      /\ QLe(q.base_with_dod, q.maximum)
                      /\ QSub(q.maximum, q.minimum)
                             = QMul(QMul(I(2), variance), q.base_with_dod)

\* the test case: 5 points at 100 with variance 0.3 and no quality impact
\* are quoted 350 to 650
C6_Witness ==
    /\ Priced("experimental")
    /\ call.story_points = I(5)
    /\ engines[1].base_story_point_price = I(100)
    /\ engines[1].experimental_variance = Q(3, 10)
    /\ engines[1].dod_impact_total = I(0)
    /\ quotes[1].minimum = I(350)
    /\ quotes[1].maximum = I(650)

OwnPriceKeys(risk_profile) ==
    IF risk_profile = "proven" THEN {"fixed"}
    ELSE IF risk_profile = "experimental" THEN {"minimum", "maximum"}
    ELSE IF risk_profile = "dependant" THEN {"hourly_estimate"}
    ELSE {}

\* C7: a proven item is quoted fixed = base_with_dod, with
\* base = story_points * base_story_point_price and
\* base_with_dod = base * (1 + dod_impact_total); every quote holds base and
\* base_with_dod and, besides them, the price keys of its own profile only.
C7_ProvenAndKeys ==
    (call # <<>> /\ call.op = "calculate_prices") =>
        \A i \in 1..Len(engines) :
            LET q == quotes[i]
            IN  /\ DOMAIN q = {"base", "base_with_dod"} \cup OwnPriceKeys(call.risk_profile)
                /\ q.base = QMul(call.story_points, engines[i].base_story_point_price)
                /\ q.base_with_dod =
                       QMul(q.base, QAdd(I(1), engines[i].dod_impact_total))
                /\ call.risk_profile = "proven" => q.fixed = q.base_with_dod

\* a proven item priced with a quality impact: 5 points at 130 and +14%
C7_Witness ==
    /\ Priced("proven")
    /\ call.story_points = I(5)
    /\ engines[1].base_story_point_price = I(130)
    /\ engines[1].dod_impact_total = Q(14, 100)
    /\ quotes[1].base = I(650)
    /\ quotes[1].fixed = I(741)

(***************************************************************************)
(* PricingEngine.calculate_epic_totals                                     *)
(***************************************************************************)
TotalsSettingsChoices ==
    {s \in SettingsChoices :
        /\ s.pricing.base_story_point_price # I(0)
        /\ s.pricing.experimental_variance # I(0)
        /\ s.pricing.base_hourly_rate = I(100)}

StoryChoices ==
    {[story_points |-> sp, risk_profile |-> rp] :
        sp \in {<<>>, <<I(5)>>}, rp \in RiskProfiles}
    \cup {[story_points |-> <<I(2)>>, risk_profile |-> "experimental"]}

StoryLists == UNION {[1..n -> StoryChoices] : n \in 0..MaxStories}

\* the stories of a call, in one epic or cut in two, or no epic at all
EpicChoices ==
    {<<>>}
    \cup {<<flat>> : flat \in StoryLists}
    \cup UNION {{<<SubSeq(flat, 1, k), SubSeq(flat, k + 1, Len(flat))>> :
                    k \in 0..Len(flat)} : flat \in StoryLists}

TotalsInit ==
    /\ \E settings_config \in TotalsSettingsChoices, dod \in {I(0), Q(14, 100)} :
           engines = <<PricingEngine(settings_config, dod)>>
    /\ quotes = <<>>
    /\ totals = <<>>
    /\ call = <<>>
    /\ TimelineIdle /\ ConfigIdle /\ RiskIdle /\ RestIdle

\* calculate_epic_totals reads the engine and changes nothing of it: every
\* call starts from the engine as constructed
CalculateEpicTotals ==
    /\ call = <<>>
    /\ \E epics \in EpicChoices :
           /\ call' = [op |-> "calculate_epic_totals", epics |-> epics]
           /\ totals' = [i \in 1..Len(engines) |->
                            calculate_epic_totals(engines[i], epics)]
    /\ UNCHANGED <<engines, quotes, timelineVars, configVars, riskVars, restVars>>

TotalsNext == CalculateEpicTotals

SpecTotals == TotalsInit /\ [][TotalsNext]_vars

RECURSIVE Flatten(_)
Flatten(epics) == IF epics = <<>> THEN <<>> ELSE epics[1] \o Flatten(Tail(epics))

\* the sum of one price key over the stories of one profile
BucketSum(engine, stories, risk_profile, key) ==
    QSum([i \in 1..Len(stories) |->
             IF stories[i].risk_profile = risk_profile
             THEN calculate_prices(engine, story_points_or_zero(stories[i]),
                                   risk_profile)[key]
             ELSE I(0)])

WithPoints(stories) == SelectSeq(stories, LAMBDA st : st.story_points # <<>>)

\* C8: proven, experimental_min, experimental_max and dependant are the sums
\* of fixed, minimum, maximum and hourly_estimate over the stories of the
\* matching profile; grand_total = proven + experimental_max + dependant;
\* the stories without story points add nothing.
C8_Totals ==
    (call # <<>> /\ call.op = "calculate_epic_totals") =>
        LET stories == Flatten(call.epics)
            engine == engines[1]
            t == totals[1]
        IN  /\ t.proven = BucketSum(engine, stories, "proven", "fixed")
            /\ t.experimental_min = BucketSum(engine, stories, "experimental", "minimum")
            /\ t.experimental_max = BucketSum(engine, stories, "experimental", "maximum")
            /\ t.dependant = BucketSum(engine, stories, "dependant", "hourly_estimate")
            /\ t.grand_total = QAdd(QAdd(t.proven, t.experimental_max), t.dependant)
            /\ t = calculate_epic_totals(engine, <<WithPoints(stories)>>)

\* two epics holding a proven, an experimental and a dependant story, one of
\* them without story points
C8_Witness ==
    /\ call # <<>>
    /\ call.op = "calculate_epic_totals"
    /\ Len(call.epics) = 2
    /\ call.epics[1] # <<>> /\ call.epics[2] # <<>>
    /\ {st.risk_profile : st \in Range(Flatten(call.epics))} = RiskProfiles
    /\ \E st \in Range(Flatten(call.epics)) : st.story_points = <<>>
    /\ QLt(I(0), totals[1].proven)
    /\ QLt(totals[1].experimental_min, totals[1].experimental_max)
    /\ QLt(totals[1].experimental_max, totals[1].grand_total)

(***************************************************************************)
(* Python strings, as sequences of characters                              *)
(***************************************************************************)
UpperCase == <<"A", "B", "C", "D", "E", "F", "G", "H", "I", "J", "K", "L", "M",
               "N", "O", "P", "Q", "R", "S", "T", "U", "V", "W", "X", "Y", "Z">>
LowerCase == <<"a", "b", "c", "d", "e", "f", "g", "h", "i", "j", "k", "l", "m",
               "n", "o", "p", "q", "r", "s", "t", "u", "v", "w", "x", "y", "z">>

lower_char(c) ==
    IF \E i \in 1..Len(UpperCase) : UpperCase[i] = c
    THEN LowerCase[CHOOSE i \in 1..Len(UpperCase) : UpperCase[i] = c]
    ELSE c

\* str.lower()
lower(str) == [i \in 1..Len(str) |-> lower_char(str[i])]

\* str.replace(old, new) for a one-character old
RECURSIVE replace(_, _, _)
replace(str, old, new) ==
    IF str = <<>> THEN <<>>
    ELSE (IF str[1] = old THEN new ELSE <<str[1]>>) \o replace(Tail(str), old, new)

\* "sub in str"
contains(str, sub) ==
    \E i \in 0..(Len(str) - Len(sub)) : SubSeq(str, i + 1, i + Len(sub)) = sub

(***************************************************************************)
(* ConfigManager.get_dod_impacts and calculate_dod_impact_total            *)
(* dod_config is [categories |-> <<[items |-> <<item, ...>>], ...>>]; an   *)
(* item is [description, impact_percentage], impact_percentage <<>> when   *)
(* the key is missing, description <<>> when it is missing or empty.       *)
(***************************************************************************)
MaxItems == 3         \* Definition-of-Done items in one configuration

\* description.lower().replace(' ', '_').replace('(', '').replace(')', '')
\*            .replace(',', '').replace('-', '_').replace('&', 'and')
clean_key_of(description) ==
    replace(replace(replace(replace(replace(replace(lower(description),
        " ", <<"_">>), "(", <<>>), ")", <<>>), ",", <<>>), "-", <<"_">>),
        "&", <<"a", "n", "d">>)

\* item.get('impact_percentage', 0.0)
impact_percentage_of(item) ==
    IF item.impact_percentage = <<>> THEN I(0) ELSE item.impact_percentage[1]

\* dod_impacts[clean_key] = impact_percentage
dict_set(dict, key, value) ==
    [k \in (DOMAIN dict) \cup {key} |-> IF k = key THEN value ELSE dict[k]]

RECURSIVE impacts_of_items(_, _, _)
impacts_of_items(dict, items, n) ==
    IF n = 0 THEN dict
    ELSE dict_set(impacts_of_items(dict, items, n - 1),
                  clean_key_of(items[n].description),
                  impact_percentage_of(items[n]))

RECURSIVE impacts_of_categories(_, _, _)
impacts_of_categories(dict, categories, n) ==
    IF n = 0 THEN dict
    ELSE impacts_of_items(impacts_of_categories(dict, categories, n - 1),
                          categories[n].items, Len(categories[n].items))

get_dod_impacts(config) ==
    impacts_of_categories(<<>>, config.categories, Len(config.categories))

\* sum(dod_impacts.values())
RECURSIVE sum_values(_, _)
sum_values(dict, keys) ==
    IF keys = {} THEN I(0)
    ELSE LET k == CHOOSE x \in keys : TRUE
         IN  QAdd(dict[k], sum_values(dict, keys \ {k}))

calculate_dod_impact_total(config) ==
    LET dod_impacts == get_dod_impacts(config)
    IN  IF DOMAIN dod_impacts = {} THEN I(0)
        ELSE sum_values(dod_impacts, DOMAIN dod_impacts)

\* the default configuration has descriptions like "Code is reviewed and
\* approved via pull requests"; the model's are short
ItemChoices ==
    { [description |-> <<"A", "b", " ", "c">>, impact_percentage |-> <<Q(4, 100)>>],
      [description |-> <<"a", "b", "-", "c">>, impact_percentage |-> <<Q(3, 100)>>],
      [description |-> <<"Q", "&", "A">>, impact_percentage |-> <<Q(3, 5)>>],
      [description |-> <<"a", "(", "b", ")", ",", "c">>, impact_percentage |-> <<Q(1, 2)>>],
      [description |-> <<>>, impact_percentage |-> <<Q(7, 100)>>],
      [description |-> <<"x">>, impact_percentage |-> <<>>] }

ItemLists == UNION {[1..n -> ItemChoices] : n \in 0..MaxItems}

\* the items of a configuration, in one category or cut in two, or no
\* category at all
DodConfigChoices ==
    {[categories |-> <<>>]}
    \cup {[categories |-> <<[items |-> flat]>>] : flat \in ItemLists}
    \cup UNION {{[categories |-> <<[items |-> SubSeq(flat, 1, k)],
                                   [items |-> SubSeq(flat, k + 1, Len(flat))]>>] :
                    k \in 0..Len(flat)} : flat \in ItemLists}

ConfigInit ==
    /\ dod_config \in DodConfigChoices
    /\ dod_result = <<>>
    /\ call = <<>>
    /\ TimelineIdle /\ PricingIdle /\ RiskIdle /\ RestIdle

GetDodImpacts ==
    /\ dod_result' = [op |-> "get_dod_impacts", value |-> get_dod_impacts(dod_config)]
    /\ UNCHANGED <<dod_config, call, timelineVars, pricingVars, riskVars, restVars>>

CalculateDodImpactTotal ==
    /\ dod_result' = [op |-> "calculate_dod_impact_total",
                      value |-> calculate_dod_impact_total(dod_config)]
    /\ UNCHANGED <<dod_config, call, timelineVars, pricingVars, riskVars, restVars>>

ConfigNext == GetDodImpacts \/ CalculateDodImpactTotal

SpecConfig == ConfigInit /\ [][ConfigNext]_vars

RECURSIVE AllItems(_)
AllItems(categories) ==
    IF categories = <<>> THEN <<>>
    ELSE categories[1].items \o AllItems(Tail(categories))

SumOfAllItems(config) ==
    LET items == AllItems(config.categories)
    IN  QSum([i \in 1..Len(items) |-> impact_percentage_of(items[i])])

TotalReturned == dod_result # <<>> /\ dod_result.op = "calculate_dod_impact_total"

\* C9: calculate_dod_impact_total returns the sum of impact_percentage over
\* every item of every category (0 when there is none), unclamped.
C9_SumOfAllItems ==
    TotalReturned => dod_result.value = SumOfAllItems(dod_config)

(***************************************************************************)
(* RiskAssessor.determine_risk_profile                                     *)
(* A story is [type_of_work, labels, story_points]:                        *)
(*   type_of_work  [kind |-> "none"]                  field absent         *)
(*                 [kind |-> "str", value |-> chars]  a string             *)
(*                 [kind |-> "dict", value |-> chars] {'value': ...}       *)
(*                 [kind |-> "list", values |-> <<chars, ...>>]            *)
(*                                                    [{'value': ...}, ...]*)
(*                 [kind |-> "tags", values |-> <<chars, ...>>]            *)
(*                                                    a list of strings    *)
(*   labels        a sequence of strings                                   *)
(*   story_points  <<>> when customfield_10016 is absent, else <<q>>       *)
(***************************************************************************)
MaxTags == 2          \* tags in one type-of-work value

Proven == <<"p", "r", "o", "v", "e", "n">>
Experimental == <<"e", "x", "p", "e", "r", "i", "m", "e", "n", "t", "a", "l">>
Dependant == <<"d", "e", "p", "e", "n", "d", "a", "n", "t">>
Dependent == <<"d", "e", "p", "e", "n", "d", "e", "n", "t">>
LowRisk == <<"l", "o", "w", "-", "r", "i", "s", "k">>
Fixed == <<"f", "i", "x", "e", "d">>
ModerateRisk == <<"m", "o", "d", "e", "r", "a", "t", "e", "-", "r", "i", "s", "k">>
Research == <<"r", "e", "s", "e", "a", "r", "c", "h">>
HighRisk == <<"h", "i", "g", "h", "-", "r", "i", "s", "k">>
External == <<"e", "x", "t", "e", "r", "n", "a", "l">>

\* settings_config["risk_assessment"]["risk_priority"], in dict order
DefaultRiskPriority ==
    << [risk_type |-> Proven, priority |-> 1],
       [risk_type |-> Experimental, priority |-> 2],
       [risk_type |-> Dependant, priority |-> 3],
       [risk_type |-> Dependent, priority |-> 3] >>
\* a settings file that ranks the profiles the other way round
ReversedRiskPriority ==
    << [risk_type |-> Proven, priority |-> 3],
       [risk_type |-> Experimental, priority |-> 2],
       [risk_type |-> Dependant, priority |-> 1],
       [risk_type |-> Dependent, priority |-> 1] >>
\* a settings file that ranks the profiles from zero
ZeroBasedRiskPriority ==
    << [risk_type |-> Proven, priority |-> 0],
       [risk_type |-> Experimental, priority |-> 1],
       [risk_type |-> Dependant, priority |-> 2],
       [risk_type |-> Dependent, priority |-> 2] >>
RiskPriorityChoices ==
    {DefaultRiskPriority, ReversedRiskPriority, ZeroBasedRiskPriority}

proven_threshold_story_points == 3
experimental_threshold_story_points == 8

\* str.strip(), for blanks
RECURSIVE lstrip(_)
lstrip(str) == IF str # <<>> /\ str[1] = " " THEN lstrip(Tail(str)) ELSE str
RECURSIVE rstrip(_)
rstrip(str) ==
    IF str # <<>> /\ str[Len(str)] = " "
    THEN rstrip(SubSeq(str, 1, Len(str) - 1)) ELSE str
strip(str) == rstrip(lstrip(str))

\* str.split(','): the pieces between the commas, empty ones included
RECURSIVE split_at(_, _, _)
split_at(str, i, piece) ==
    IF i > Len(str) THEN <<piece>>
    ELSE IF str[i] = "," THEN <<piece>> \o split_at(str, i + 1, <<>>)
    ELSE split_at(str, i + 1, Append(piece, str[i]))
split_commas(str) == split_at(str, 1, <<>>)

\* "if type_of_work_value:" -- None, '' and [] are false
truthy(type_of_work) ==
    \/ type_of_work.kind = "dict"
    \/ type_of_work.kind = "str" /\ type_of_work.value # <<>>
    \/ type_of_work.kind \in {"list", "tags"} /\ type_of_work.values # <<>>

\* item.get('value', '') on the items of a list: a str has no get
raised_by(type_of_work) ==
    IF truthy(type_of_work) /\ type_of_work.kind = "tags"
    THEN "AttributeError" ELSE ""

\* lines 28-36
work_types_of(type_of_work) ==
    IF type_of_work.kind = "list"
    THEN [i \in 1..Len(type_of_work.values) |-> lower(type_of_work.values[i])]
    ELSE IF type_of_work.kind = "dict"
    THEN <<lower(type_of_work.value)>>
    ELSE IF type_of_work.kind = "str"
    THEN LET pieces == split_commas(type_of_work.value)
         IN  [i \in 1..Len(pieces) |-> lower(strip(pieces[i]))]
    ELSE <<>>

\* "risk_type in work_type or work_type in risk_type"
matches(risk_type, work_type) ==
    contains(work_type, risk_type) \/ contains(risk_type, work_type)

normalize(risk_type) == IF risk_type # Dependent THEN risk_type ELSE Dependant

beats(priority, highest_priority) == priority > highest_priority

\* the inner loop over self.risk_priority.items(), lines 44-48
RECURSIVE scan_risk_types(_, _, _, _)
scan_risk_types(acc, priorities, work_type, n) ==
    IF n = 0 THEN acc
    ELSE LET before == scan_risk_types(acc, priorities, work_type, n - 1)
             entry == priorities[n]
         IN  IF matches(entry.risk_type, work_type)
                /\ beats(entry.priority, before.highest_priority)
             THEN [highest_priority |-> entry.priority,
                   selected_risk |-> normalize(entry.risk_type)]
             ELSE before

\* the outer loop over work_types, lines 42-48
RECURSIVE scan_work_types(_, _, _, _)
scan_work_types(acc, priorities, work_types, n) ==
    IF n = 0 THEN acc
    ELSE scan_risk_types(scan_work_types(acc, priorities, work_types, n - 1),
                         priorities, work_types[n], Len(priorities))

\* _get_story_points_from_story
get_story_points_from_story(story) ==
    IF story.story_points # <<>> /\ story.story_points[1] # I(0)
    THEN story.story_points[1] ELSE I(0)

\* a test that looks at the first label only
any_label_first(risk_labels, words) ==
    risk_labels # <<>> /\ risk_labels[1] \in words

any_label(risk_labels, words) == \E w \in words : w \in Range(risk_labels)

\* lines 54-77
risk_from_labels_or_points(story) ==
    LET risk_labels == [i \in 1..Len(story.labels) |-> lower(story.labels[i])]
        story_points == get_story_points_from_story(story)
    IN  IF any_label(risk_labels, {Proven, LowRisk, Fixed}) THEN Proven
        ELSE IF any_label(risk_labels, {Experimental, ModerateRisk, Research})
        THEN Experimental
        ELSE IF any_label(risk_labels, {Dependant, Dependent, HighRisk, External})
        THEN Dependant
        ELSE IF story_points # I(0)
        THEN (IF QLe(story_points, I(proven_threshold_story_points)) THEN Proven
              ELSE IF QLe(story_points, I(experimental_threshold_story_points))
              THEN Experimental
              ELSE Dependant)
        ELSE Experimental

determine_risk_profile(priorities, story) ==
    LET scanned ==
            IF truthy(story.type_of_work)
            THEN LET work_types == work_types_of(story.type_of_work)
                 IN  scan_work_types([highest_priority |-> 0,
                                      selected_risk |-> Experimental],
                                     priorities, work_types, Len(work_types))
            ELSE [highest_priority |-> 0, selected_risk |-> Experimental]
    IN  IF scanned.highest_priority > 0
        THEN scanned.selected_risk
        ELSE risk_from_labels_or_points(story)

(***************************************************************************)
(* RiskAssessor: inputs of the model                                       *)
(***************************************************************************)
TagChoices ==
    { Proven, Experimental, Dependant, Dependent,
      <<"P", "r", "o", "v", "e", "n">>,
      <<"p", "r", "o">>,
      <<"o", "t", "h", "e", "r">> }

TagLists == UNION {[1..n -> TagChoices] : n \in 1..MaxTags}

RECURSIVE join(_, _)
join(strs, sep) ==
    IF Len(strs) = 0 THEN <<>>
    ELSE IF Len(strs) = 1 THEN strs[1]
    ELSE strs[1] \o sep \o join(Tail(strs), sep)

TypeOfWorkChoices ==
    {[kind |-> "none"]}
    \cup {[kind |-> "dict", value |-> tag] : tag \in TagChoices}
    \cup {[kind |-> "list", values |-> tags] : tags \in TagLists}
    \cup {[kind |-> "tags", values |-> tags] : tags \in TagLists}
    \cup {[kind |-> "str", value |-> join(tags, sep)] :
             tags \in TagLists, sep \in {<<",">>, <<",", " ">>}}

LabelChoices ==
    { <<>>, <<Proven>>, <<External, <<"U", "I">>>>, <<External, Proven>>,
      <<<<"R", "e", "s", "e", "a", "r", "c", "h">>, HighRisk>>, <<<<"U", "I">>>> }
RiskStoryPointChoices ==
    {<<>>, <<I(0)>>, <<I(2)>>, <<I(3)>>, <<I(5)>>, <<I(8)>>, <<I(13)>>}

RiskStoryChoices ==
    {[type_of_work |-> tw, labels |-> labels, story_points |-> sp] :
        tw \in TypeOfWorkChoices, labels \in LabelChoices,
        sp \in RiskStoryPointChoices}

RiskInit ==
    /\ risk_priority \in RiskPriorityChoices
    /\ risk_result = <<>>
    /\ call = <<>>
    /\ TimelineIdle /\ PricingIdle /\ ConfigIdle /\ RestIdle

\* determine_risk_profile reads the assessor and changes nothing of it:
\* every call starts from the assessor as constructed
DetermineRiskProfile ==
    /\ call = <<>>
    /\ \E story \in RiskStoryChoices :
           /\ call' = [op |-> "determine_risk_profile", story |-> story,
                       raised |-> raised_by(story.type_of_work)]
           /\ risk_result' =
                  IF raised_by(story.type_of_work) # "" THEN <<>>
                  ELSE <<determine_risk_profile(risk_priority, story)>>
    /\ UNCHANGED <<risk_priority, timelineVars, pricingVars, configVars, restVars>>

RiskNext == DetermineRiskProfile

SpecRisk == RiskInit /\ [][RiskNext]_vars

(***************************************************************************)
(* Claims about RiskAssessor.determine_risk_profile                        *)
(***************************************************************************)
Called == call # <<>> /\ call.op = "determine_risk_profile"

\* the call has returned a profile
Assessed == Called /\ call.raised = ""

\* the keys of risk_priority that some tag of the story matches
MatchingKeys(story) ==
    {i \in 1..Len(risk_priority) :
        \E work_type \in Range(work_types_of(story.type_of_work)) :
            matches(risk_priority[i].risk_type, work_type)}

TopKeys(story) ==
    {i \in MatchingKeys(story) :
        \A j \in MatchingKeys(story) :
            risk_priority[j].priority <= risk_priority[i].priority}

Reversed(seq) == [i \in 1..Len(seq) |-> seq[Len(seq) + 1 - i]]

ReversedTags(story) ==
    IF story.type_of_work.kind = "list"
    THEN [story EXCEPT !.type_of_work.values = Reversed(@)]
    ELSE IF story.type_of_work.kind = "str"
    THEN [story EXCEPT !.type_of_work.value =
             join(Reversed(split_commas(@)), <<",">>)]
    ELSE story

HighestPriorityTag(story) ==
    /\ {normalize(risk_priority[i].risk_type) : i \in TopKeys(story)}
           = {risk_result[1]}
    /\ determine_risk_profile(risk_priority, ReversedTags(story))
           = risk_result[1]

\* C10: when tags of the type-of-work value match risk keys, the result is
\* the matching key of the highest risk_priority value ('dependent' as
\* 'dependant'), whatever the order of the tags and whatever the labels and
\* story points of the item.
C10_HighestPriorityTag ==
    (Assessed /\ truthy(call.story.type_of_work) /\ MatchingKeys(call.story) # {})
        => HighestPriorityTag(call.story)

\* C10, where it agrees with the code: the same, when the highest priority
\* among the matching keys is above zero.
C10_AboveZero ==
    (/\ Assessed /\ truthy(call.story.type_of_work)
     /\ \E i \in MatchingKeys(call.story) : risk_priority[i].priority > 0)
        => HighestPriorityTag(call.story)

\* the default priorities, the tags proven and dependant in this order, a
\* label and story points that both say proven: the result is dependant
C10_DefaultsReached ==
    /\ Assessed
    /\ risk_priority = DefaultRiskPriority
    /\ call.story.type_of_work.kind = "str"
    /\ work_types_of(call.story.type_of_work) = <<Proven, Dependant>>
    /\ call.story.labels = <<Proven>>
    /\ call.story.story_points = <<I(2)>>
    /\ risk_result = <<Dependant>>

(***************************************************************************)
(* Claims about the fallbacks of determine_risk_profile                    *)
(***************************************************************************)
NoTypeOfWorkMatch(story) ==
    ~truthy(story.type_of_work) \/ MatchingKeys(story) = {}

RiskWords ==
    { Proven, LowRisk, Fixed, Experimental, ModerateRisk, Research,
      Dependant, Dependent, HighRisk, External }

NoRiskLabel(story) ==
    \A i \in 1..Len(story.labels) : lower(story.labels[i]) \notin RiskWords

\* what the thresholds give for a story-points value
ByThresholds(points) ==
    IF QLe(points, I(proven_threshold_story_points)) THEN Proven
    ELSE IF QLe(points, I(experimental_threshold_story_points)) THEN Experimental
    ELSE Dependant

ByStoryPoints(story) ==
    IF story.story_points = <<>>
    THEN risk_result[1] = Experimental
    ELSE risk_result[1] = ByThresholds(story.story_points[1])

\* C11: with no type-of-work match and no risk label, a present story-points
\* value >= 0 is classified by the thresholds (<= 3 proven, <= 8
\* experimental, else dependant) and an item without story points is
\* experimental.
C11_ByStoryPoints ==
    (Assessed /\ NoTypeOfWorkMatch(call.story) /\ NoRiskLabel(call.story))
        => ByStoryPoints(call.story)

\* C11, where it agrees with the code: the same for every story-points value
\* other than 0.
C11_NonZeroPoints ==
    (/\ Assessed /\ NoTypeOfWorkMatch(call.story) /\ NoRiskLabel(call.story)
     /\ call.story.story_points # <<I(0)>>)
        => ByStoryPoints(call.story)

\* a story with 8 points and nothing else is experimental, one with 13 is
\* dependant
C11_ThresholdsReached ==
    /\ Assessed
    /\ NoTypeOfWorkMatch(call.story) /\ NoRiskLabel(call.story)
    /\ \/ call.story.story_points = <<I(8)>> /\ risk_result = <<Experimental>>
       \/ call.story.story_points = <<I(13)>> /\ risk_result = <<Dependant>>
LoweredLabels(story) == {lower(story.labels[i]) : i \in 1..Len(story.labels)}

ByLabels(story) ==
    IF LoweredLabels(story) \cap {Proven, LowRisk, Fixed} # {}
    THEN risk_result[1] = Proven
    ELSE IF LoweredLabels(story) \cap {Experimental, ModerateRisk, Research} # {}
    THEN risk_result[1] = Experimental
    ELSE IF LoweredLabels(story) \cap {Dependant, Dependent, HighRisk, External} # {}
    THEN risk_result[1] = Dependant
    ELSE TRUE

\* C12: with no type-of-work match the lowercased labels decide: a label of
\* {proven, low-risk, fixed} gives proven, else one of {experimental,
\* moderate-risk, research} gives experimental, else one of {dependant,
\* dependent, high-risk, external} gives dependant; the first set in this
\* order wins and story points are not looked at.
C12_ByLabels ==
    (Assessed /\ NoTypeOfWorkMatch(call.story)) => ByLabels(call.story)

\* labels external and proven, in this order, on a story of 13 points: proven;
\* labels Research and high-risk on a story of 2 points: experimental
C12_Witness ==
    /\ Assessed /\ NoTypeOfWorkMatch(call.story)
    /\ \/ /\ call.story.labels = <<External, Proven>>
          /\ call.story.story_points = <<I(13)>>
          /\ risk_result = <<Proven>>
       \/ /\ Len(call.story.labels) = 2 /\ call.story.labels[2] = HighRisk
          /\ call.story.story_points = <<I(2)>>
          /\ risk_result = <<Experimental>>
\* C13: every call returns one of proven, experimental, dependant and raises
\* nothing, whatever the shape of the type-of-work value and whether labels
\* or story points are there; with nothing to go by the result is
\* experimental.
C13_NeverRaises ==
    Called =>
        /\ call.raised = ""
        /\ risk_result \in {<<Proven>>, <<Experimental>>, <<Dependant>>}
        /\ (/\ call.story.type_of_work.kind = "none"
            /\ call.story.labels = <<>>
            /\ call.story.story_points = <<>>) => risk_result = <<Experimental>>

\* C13, where it agrees with the code: the same for an absent value, a
\* string, an option {'value': ...} and a list of such options.
C13_OptionsNeverRaise ==
    (Called /\ call.story.type_of_work.kind # "tags") =>
        /\ call.raised = ""
        /\ risk_result \in {<<Proven>>, <<Experimental>>, <<Dependant>>}
        /\ (/\ call.story.type_of_work.kind = "none"
            /\ call.story.labels = <<>>
            /\ call.story.story_points = <<>>) => risk_result = <<Experimental>>

\* a story with no type of work, no labels and no story points came out as
\* experimental
C13_DefaultReached ==
    /\ Assessed
    /\ call.story.type_of_work.kind = "none"
    /\ call.story.labels = <<>> /\ call.story.story_points = <<>>
    /\ risk_result = <<Experimental>>

(***************************************************************************)
(* MoscowManager.get_moscow_priority                                       *)
(* A story is [labels, priority]: labels a sequence of strings, priority   *)
(* <<>> when the field is absent or null, else <<[name |-> chars]>>        *)
(***************************************************************************)
MaxLabels == 2        \* labels on one story

Must == <<"m", "u", "s", "t">>
MustHave == <<"m", "u", "s", "t", "-", "h", "a", "v", "e">>
Should == <<"s", "h", "o", "u", "l", "d">>
ShouldHave == <<"s", "h", "o", "u", "l", "d", "-", "h", "a", "v", "e">>
Could == <<"c", "o", "u", "l", "d">>
CouldHave == <<"c", "o", "u", "l", "d", "-", "h", "a", "v", "e">>
Wont == <<"w", "o", "n", "t">>
WontHave == <<"w", "o", "n", "t", "-", "h", "a", "v", "e">>
OutOfScope == <<"o", "u", "t", "-", "o", "f", "-", "s", "c", "o", "p", "e">>
Highest == <<"h", "i", "g", "h", "e", "s", "t">>
Blocker == <<"b", "l", "o", "c", "k", "e", "r">>
High == <<"h", "i", "g", "h">>
Major == <<"m", "a", "j", "o", "r">>
Medium == <<"m", "e", "d", "i", "u", "m">>
Normal == <<"n", "o", "r", "m", "a", "l">>
Low == <<"l", "o", "w">>
Minor == <<"m", "i", "n", "o", "r">>
Trivial == <<"t", "r", "i", "v", "i", "a", "l">>

\* the label tests of lines 22-29; "" when no label decides
moscow_from_labels(moscow_labels) ==
    IF any_label(moscow_labels, {Must, MustHave}) THEN "Must Have"
    ELSE IF any_label(moscow_labels, {Should, ShouldHave}) THEN "Should Have"
    ELSE IF any_label(moscow_labels, {Could, CouldHave}) THEN "Could Have"
    ELSE IF any_label(moscow_labels, {Wont, WontHave, OutOfScope})
    THEN "Won't Have"
    ELSE ""

\* the priority mapping of lines 32-44; "" when the field does not decide
moscow_from_priority(priority) ==
    IF priority = <<>> THEN ""
    ELSE LET priority_name == lower(priority[1].name)
         IN  IF priority_name \in {Highest, Blocker} THEN "Must Have"
             ELSE IF priority_name \in {High, Major} THEN "Should Have"
             ELSE IF priority_name \in {Medium, Normal} THEN "Could Have"
             ELSE IF priority_name \in {Low, Minor, Trivial} THEN "Won't Have"
             ELSE ""

\* a cascade that asks the priority field before the labels
get_moscow_priority_field_first(story) ==
    LET moscow_labels == [i \in 1..Len(story.labels) |-> lower(story.labels[i])]
    IN  IF moscow_from_priority(story.priority) # ""
        THEN moscow_from_priority(story.priority)
        ELSE IF moscow_from_labels(moscow_labels) # ""
        THEN moscow_from_labels(moscow_labels)
        ELSE "Should Have"

get_moscow_priority(story) ==
    LET moscow_labels == [i \in 1..Len(story.labels) |-> lower(story.labels[i])]
    IN  IF moscow_from_labels(moscow_labels) # ""
        THEN moscow_from_labels(moscow_labels)
        ELSE IF moscow_from_priority(story.priority) # ""
        THEN moscow_from_priority(story.priority)
        ELSE "Should Have"

MoscowLabelChoices ==
    { Must, <<"M", "u", "s", "t", "-", "H", "a", "v", "e">>, ShouldHave, Could,
      Wont, OutOfScope, <<"u", "i">> }

MoscowLabelLists == UNION {[1..n -> MoscowLabelChoices] : n \in 0..MaxLabels}

PriorityChoices ==
    {<<>>}
    \cup {<<[name |-> n]>> :
             n \in { Highest, Blocker, <<"H", "i", "g", "h">>, Major, Medium,
                     Normal, Low, Minor, Trivial, <<"u", "r", "g", "e", "n", "t">> }}

MoscowStoryChoices ==
    {[labels |-> labels, priority |-> priority] :
        labels \in MoscowLabelLists, priority \in PriorityChoices}

MoscowInit ==
    /\ moscow_result = <<>>
    /\ call = <<>>
    /\ TimelineIdle /\ PricingIdle /\ ConfigIdle /\ RiskIdle
    /\ CapacityIdle /\ FlatIdle /\ PlannerIdle

\* get_moscow_priority reads nothing but its argument: one call per story
GetMoscowPriority ==
    /\ call = <<>>
    /\ \E story \in MoscowStoryChoices :
           /\ call' = [op |-> "get_moscow_priority", story |-> story]
           /\ moscow_result' = <<get_moscow_priority(story)>>
    /\ UNCHANGED <<timelineVars, pricingVars, configVars, riskVars,
                   capacityVars, flatVars, plannerVars>>

(***************************************************************************)
(* MoscowManager.filter_stories_by_moscow                                  *)
(***************************************************************************)
MaxFiltered == 3      \* stories handed to one filter_stories_by_moscow call

available_priorities == <<"Must Have", "Should Have", "Could Have", "Won't Have">>

\* a test that lets every story through
in_selected_always(moscow_priority, selected_priorities) == TRUE

\* "moscow_priority in selected_priorities"
in_selected(moscow_priority, selected_priorities) ==
    moscow_priority \in Range(selected_priorities)

\* the loop over stories, lines 108-114: [filtered_stories, priority_counts]
RECURSIVE filter_loop(_, _, _)
filter_loop(stories, selected_priorities, n) ==
    IF n = 0
    THEN [filtered_stories |-> <<>>,
          priority_counts |-> [p \in Range(available_priorities) |-> 0]]
    ELSE LET before == filter_loop(stories, selected_priorities, n - 1)
             moscow_priority == get_moscow_priority(stories[n])
         IN  [filtered_stories |->
                  IF in_selected(moscow_priority, selected_priorities)
                  THEN Append(before.filtered_stories, stories[n])
                  ELSE before.filtered_stories,
              priority_counts |->
                  [before.priority_counts EXCEPT ![moscow_priority] = @ + 1]]

\* the empty dict {} is the function with no keys
filter_stories_by_moscow(stories, selected_priorities) ==
    IF selected_priorities = <<>>
    THEN [filtered_stories |-> stories, priority_counts |-> <<>>]
    ELSE filter_loop(stories, selected_priorities, Len(stories))

\* stories with a key, to tell them apart in the result
FilterStoryChoices ==
    { [key |-> "S-1", labels |-> <<Must>>, priority |-> <<[name |-> Low]>>],
      [key |-> "S-2", labels |-> <<<<"u", "i">>>>, priority |-> <<[name |-> Highest]>>],
      [key |-> "S-3", labels |-> <<>>, priority |-> <<>>],
      [key |-> "S-4", labels |-> <<OutOfScope, Could>>, priority |-> <<>>],
      [key |-> "S-5", labels |-> <<>>, priority |-> <<[name |-> Trivial]>>] }

FilterStoryLists == UNION {[1..n -> FilterStoryChoices] : n \in 0..MaxFiltered}

SelectionChoices ==
    { <<>>, <<"Must Have">>, <<"Won't Have", "Must Have">>,
      <<"Should Have", "Could Have">>, available_priorities }

FilterStoriesByMoscow ==
    /\ call = <<>>
    /\ \E stories \in FilterStoryLists, selected_priorities \in SelectionChoices :
           /\ call' = [op |-> "filter_stories_by_moscow", stories |-> stories,
                       selected_priorities |-> selected_priorities]
           /\ moscow_result' =
                  <<filter_stories_by_moscow(stories, selected_priorities)>>
    /\ UNCHANGED <<timelineVars, pricingVars, configVars, riskVars,
                   capacityVars, flatVars, plannerVars>>

MoscowNext ==
    \/ GetMoscowPriority
    \/ FilterStoriesByMoscow

SpecMoscow == MoscowInit /\ [][MoscowNext]_vars

(***************************************************************************)
(* Claims about MoscowManager.get_moscow_priority                          *)
(***************************************************************************)
Prioritised == call # <<>> /\ call.op = "get_moscow_priority"

LoweredSet(labels) == {lower(labels[i]) : i \in 1..Len(labels)}

LabelVerdict(labels) ==
    IF LoweredSet(labels) \cap {Must, MustHave} # {} THEN "Must Have"
    ELSE IF LoweredSet(labels) \cap {Should, ShouldHave} # {} THEN "Should Have"
    ELSE IF LoweredSet(labels) \cap {Could, CouldHave} # {} THEN "Could Have"
    ELSE IF LoweredSet(labels) \cap {Wont, WontHave, OutOfScope} # {}
    THEN "Won't Have"
    ELSE ""

NameVerdict(priority) ==
    IF priority = <<>> THEN ""
    ELSE IF lower(priority[1].name) \in {Highest, Blocker} THEN "Must Have"
    ELSE IF lower(priority[1].name) \in {High, Major} THEN "Should Have"
    ELSE IF lower(priority[1].name) \in {Medium, Normal} THEN "Could Have"
    ELSE IF lower(priority[1].name) \in {Low, Minor, Trivial} THEN "Won't Have"
    ELSE ""

\* C14: the first label set in the order must, should, could, wont decides;
\* only when no label matches does the priority name decide; otherwise the
\* result is Should Have. A MoSCoW label wins over a conflicting priority.
C14_LabelsFirst ==
    Prioritised =>
        /\ LabelVerdict(call.story.labels) # ""
               => moscow_result = <<LabelVerdict(call.story.labels)>>
        /\ (LabelVerdict(call.story.labels) = ""
               /\ NameVerdict(call.story.priority) # "")
               => moscow_result = <<NameVerdict(call.story.priority)>>
        /\ (LabelVerdict(call.story.labels) = ""
               /\ NameVerdict(call.story.priority) = "")
               => moscow_result = <<"Should Have">>

\* a story labelled wont and Must-Have whose priority is Low came out as
\* Must Have, or one labelled could with priority Highest as Could Have
C14_Witness ==
    /\ Prioritised
    /\ \/ /\ call.story.labels = <<Wont, <<"M", "u", "s", "t", "-", "H", "a", "v", "e">>>>
          /\ call.story.priority = <<[name |-> Low]>>
          /\ moscow_result = <<"Must Have">>
       \/ /\ call.story.labels = <<Could>>
          /\ call.story.priority = <<[name |-> Highest]>>
          /\ moscow_result = <<"Could Have">>

(***************************************************************************)
(* TimelineGenerator.calculate_working_days and                            *)
(* calculate_effective_capacity called on their own                        *)
(***************************************************************************)
LastDay == 14         \* the dates of a call lie in 0..LastDay (day 0 a Monday)

DateChoices == 0..LastDay

CalculateWorkingDays ==
    /\ pc = "idle" /\ call = <<>>
    /\ \E member \in MemberChoices, start_date \in DateChoices,
          end_date \in DateChoices :
           /\ call' = [op |-> "calculate_working_days", member |-> member,
                       start_date |-> start_date, end_date |-> end_date,
                       holidays |-> holidays]
           /\ days_result' =
                  <<calculate_working_days(holidays, start_date, end_date, member)>>
    /\ UNCHANGED <<timelineVars, pricingVars, configVars, riskVars, moscowVars,
                   flatVars, plannerVars>>

CalculateEffectiveCapacity ==
    /\ pc = "idle" /\ call = <<>>
    /\ \E member \in MemberChoices, start_date \in DateChoices,
          end_date \in DateChoices :
           /\ call' = [op |-> "calculate_effective_capacity", member |-> member,
                       start_date |-> start_date, end_date |-> end_date,
                       holidays |-> holidays]
           /\ days_result' =
                  <<calculate_effective_capacity(holidays, member, start_date,
                                                end_date)>>
    /\ UNCHANGED <<timelineVars, pricingVars, configVars, riskVars, moscowVars,
                   flatVars, plannerVars>>

\* HolidayManager.is_holiday(check_date, member_name)
manager_is_holiday(hs, check_date, member_name) ==
    \E i \in 1..Len(hs) :
        /\ hs[i].date = check_date
        /\ \/ hs[i].is_national
           \/ member_name # "" /\ member_name \in Range(hs[i].affected_members)

\* SprintCalculator.calculate_working_days on a HolidayManager that holds hs
RECURSIVE sprint_calculator_working_days(_, _, _, _)
sprint_calculator_working_days(hs, start_date, end_date, member) ==
    IF start_date <= end_date
    THEN (IF weekday(start_date) < 5
             /\ ~manager_is_holiday(hs, start_date, member.name)
          THEN 1 ELSE 0)
         + sprint_calculator_working_days(hs, start_date + 1, end_date, member)
    ELSE 0

SprintCalculatorWorkingDays ==
    /\ pc = "idle" /\ call = <<>>
    /\ \E member \in MemberChoices, start_date \in DateChoices,
          end_date \in DateChoices :
           /\ call' = [op |-> "SprintCalculator.calculate_working_days",
                       member |-> member, start_date |-> start_date,
                       end_date |-> end_date, holidays |-> holidays]
           /\ days_result' =
                  <<sprint_calculator_working_days(holidays, start_date, end_date,
                                                  member)>>
    /\ UNCHANGED <<timelineVars, pricingVars, configVars, riskVars, moscowVars,
                   flatVars, plannerVars>>

CapacityNext ==
    \/ AddCustomHoliday
    \/ CalculateWorkingDays
    \/ CalculateEffectiveCapacity
    \/ SprintCalculatorWorkingDays

SpecCapacity == Init /\ [][CapacityNext]_vars

(***************************************************************************)
(* Claims about calculate_working_days                                     *)
(***************************************************************************)
Counted == call # <<>> /\ call.op = "calculate_working_days"

\* the date is a holiday for the member: an entry of the calendar on that
\* date for everyone or naming the member, or a holiday of the member's own
HolidayFor(calendar, d, member) ==
    \/ \E h \in Range(calendar) :
           /\ h.date = d
           /\ h.affected_members = <<>> \/ member.name \in Range(h.affected_members)
    \/ d \in member.custom_holidays

WorkingDates(calendar, member, start_date, end_date) ==
    {d \in start_date..end_date :
        weekday(d) \in member.working_days /\ ~HolidayFor(calendar, d, member)}

\* C15: calculate_working_days(start, end, member) is the number of dates of
\* start..end on one of the member's weekdays that are no holiday for the
\* member; a holiday naming only other members and no date outside
\* custom_holidays takes anything away.
C15_WorkingDays ==
    Counted =>
        days_result = <<Cardinality(WorkingDates(call.holidays, call.member,
                                                 call.start_date, call.end_date))>>

\* the calendar holds Alice's holiday on day 8: Bob's count over days 7..9
\* is 2 (day 9 is his own holiday), Alice's is 2
C15_Witness ==
    /\ Counted
    /\ \E h \in Range(call.holidays) : h.date = 8 /\ h.affected_members = <<"Alice">>
    /\ call.start_date = 7 /\ call.end_date = 9
    /\ \/ call.member = Bob /\ days_result = <<2>>
       \/ call.member = Alice /\ days_result = <<2>>
NationalOn(calendar, d) == \E h \in Range(calendar) : h.date = d /\ h.is_national

\* the dates the member could work once the national holidays are taken out
BarNational(calendar, member, start_date, end_date) ==
    {d \in start_date..end_date :
        weekday(d) \in member.working_days /\ ~NationalOn(calendar, d)}

\* C16: a holiday with is_national = TRUE on one of the member's weekdays
\* takes that date out of the count of every member, whatever its
\* affected_members list names.
C16_NationalForEveryone ==
    Counted =>
        days_result[1] <= Cardinality(BarNational(call.holidays, call.member,
                                                  call.start_date, call.end_date))

\* C16, where it agrees with the code: the same for the national holidays
\* whose affected_members list is empty or names the member.
C16_NationalUnscoped ==
    (/\ Counted
     /\ \A h \in Range(call.holidays) :
            h.is_national => \/ h.affected_members = <<>>
                             \/ call.member.name \in Range(h.affected_members))
        => days_result[1] <= Cardinality(BarNational(call.holidays, call.member,
                                                     call.start_date, call.end_date))

\* the national holiday of day 1 is in the calendar and a count over days
\* 0..2 came out as 2
C16_UnscopedReached ==
    /\ Counted
    /\ \E h \in Range(call.holidays) : h.date = 1 /\ h.is_national
    /\ call.start_date = 0 /\ call.end_date = 2
    /\ days_result = <<2>>
(***************************************************************************)
(* Claims about calculate_effective_capacity                               *)
(***************************************************************************)
Measured == call # <<>> /\ call.op = "calculate_effective_capacity"

WorkingDaysOfCall ==
    calculate_working_days(call.holidays, call.start_date, call.end_date,
                           call.member)

\* story_points_per_sprint * (working_days / 10) * fte
CapacityFormula(member, working_days) ==
    QMul(QMul(member.story_points_per_sprint, Q(working_days, 10)), member.fte)

\* C17: the capacity is story_points_per_sprint * (working_days / 10) * fte
\* (for a velocity that is not negative), never negative, 0 when no working
\* day is left or start > end, and story_points_per_sprint for a full-time
\* Monday-to-Friday member over 14 days without a holiday.
C17_EffectiveCapacity ==
    Measured =>
        /\ QLe(I(0), days_result[1])
        /\ QLe(I(0), call.member.story_points_per_sprint)
               => days_result[1] = CapacityFormula(call.member, WorkingDaysOfCall)
        /\ (WorkingDaysOfCall = 0 \/ call.start_date > call.end_date)
               => days_result[1] = I(0)
        /\ (/\ call.member.fte = I(1)
            /\ call.member.working_days = MonFri
            /\ call.end_date = call.start_date + 13
            /\ \A d \in call.start_date..call.end_date :
                   ~HolidayFor(call.holidays, d, call.member)
            /\ QLe(I(0), call.member.story_points_per_sprint))
               => days_result[1] = call.member.story_points_per_sprint

\* Alice over the 14 days 0..13 with nothing in the calendar: 10; Bob over
\* days 7..10 with his own holiday on day 9: 5 * 3/10 * 8/10; Alice over
\* day 1 alone when it is a holiday for everyone: 0
C17_Witness ==
    /\ Measured
    /\ \/ /\ call.member = Alice /\ call.holidays = <<>>
          /\ call.start_date = 0 /\ call.end_date = 13
          /\ days_result = <<I(10)>>
       \/ /\ call.member = Bob
          /\ call.start_date = 7 /\ call.end_date = 10
          /\ days_result = <<Q(12, 10)>>
       \/ /\ call.member = Alice /\ call.holidays # <<>>
          /\ call.start_date = 1 /\ call.end_date = 1
          /\ days_result = <<I(0)>>
(***************************************************************************)
(* SprintCalculator.generate_sprint_timeline (flat allocation); the same   *)
(* code is EnhancedTimelineGenerator.generate_sprint_timeline              *)
(***************************************************************************)
\* team members of the flat model: name, story_points_per_sprint
FlatMemberChoices ==
    { [name |-> "Alice", story_points_per_sprint |-> I(10)],
      [name |-> "Bob", story_points_per_sprint |-> I(5)],
      [name |-> "Idle", story_points_per_sprint |-> I(0)] }

FlatTeams == UNION {[1..n -> FlatMemberChoices] : n \in 0..MaxTeam}

FlatTotalChoices ==
    {I(0), I(4), I(10), I(12), I(15), Q(45, 2), I(25), I(26), I(35), Q(15, 2)}

FlatStartDates == {0, 3, 5}

\* floor of a rational
QFloor(q) == q[1] \div q[2]

\* ceiling of a rational
QCeil(q) == -((-q[1]) \div q[2])

\* round(x) of Python 3: to the nearest integer, a tie to the even one
round(q) ==
    LET below == QFloor(q)
        twice == QSub(QMul(I(2), q), I(2 * below))     \* 2 * (q - below)
    IN  IF QLt(twice, I(1)) THEN below
        ELSE IF QLt(I(1), twice) THEN below + 1
        ELSE IF below % 2 = 0 THEN below ELSE below + 1

total_team_velocity_of(members) ==
    QSum([i \in 1..Len(members) |-> members[i].story_points_per_sprint])

\* lines 70: max(1, round(total_story_points / total_team_velocity))
sprints_needed_of(total_story_points, total_team_velocity) ==
    LET rounded == round(QDiv(total_story_points, total_team_velocity))
    IN  IF rounded > 1 THEN rounded ELSE 1

\* lines 82-88: walk forward until sprint_days weekdays have been passed
RECURSIVE flat_sprint_end(_, _)
flat_sprint_end(sprint_end_date, days_left) ==
    IF days_left <= 0 THEN sprint_end_date
    ELSE flat_sprint_end(sprint_end_date + 1,
                         IF weekday(sprint_end_date + 1) < 5
                         THEN days_left - 1 ELSE days_left)

\* lines 108-111: the Monday after the sprint's end
RECURSIVE next_monday(_)
next_monday(d) == IF weekday(d) # 0 THEN next_monday(d + 1) ELSE d

\* lines 91-95
flat_story_points(sprint_num, sprints_needed, total_team_velocity, remaining) ==
    IF sprint_num = sprints_needed THEN remaining
    ELSE QMin(total_team_velocity, remaining)

\* the loop "for sprint_num in range(1, sprints_needed + 1)", lines 80-111
RECURSIVE flat_loop(_, _, _, _, _, _, _)
flat_loop(acc, sprint_num, sprints_needed, sprint_days, velocity, remaining, current) ==
    IF sprint_num > sprints_needed THEN acc
    ELSE LET sprint_end_date == flat_sprint_end(current, sprint_days)
             sprint_story_points ==
                 flat_story_points(sprint_num, sprints_needed,
                                   velocity, remaining)
             sprint == [number |-> sprint_num,
                        start_date |-> current,
                        end_date |-> sprint_end_date,
                        story_points |-> sprint_story_points,
                        team_velocity |-> velocity]
         IN  flat_loop(Append(acc, sprint), sprint_num + 1, sprints_needed,
                       sprint_days, velocity,
                       QSub(remaining, sprint_story_points),
                       next_monday(sprint_end_date + 1))

\* the whole call: [raised, sprints]
flat_generate_sprint_timeline(start_date, total_story_points, members, weeks) ==
    IF members = <<>> THEN [raised |-> "", sprints |-> <<>>]
    ELSE IF total_team_velocity_of(members) = I(0)
    THEN [raised |-> "ZeroDivisionError", sprints |-> <<>>]
    ELSE [raised |-> "",
          sprints |->
              flat_loop(<<>>, 1,
                        sprints_needed_of(total_story_points,
                                          total_team_velocity_of(members)),
                        weeks * 5,
                        total_team_velocity_of(members),
                        total_story_points, start_date)]

FlatInit ==
    /\ flat_result = <<>>
    /\ call = <<>>
    /\ TimelineIdle /\ PricingIdle /\ ConfigIdle /\ RiskIdle
    /\ MoscowIdle /\ CapacityIdle /\ PlannerIdle

\* the calculator keeps nothing between calls: one call per argument list
FlatGenerateSprintTimeline ==
    /\ call = <<>>
    /\ \E start_date \in FlatStartDates, total \in FlatTotalChoices,
          members \in FlatTeams, weeks \in SprintWeeks :
           /\ call' = [op |-> "SprintCalculator.generate_sprint_timeline",
                       start_date |-> start_date, total_story_points |-> total,
                       team_members |-> members, sprint_length_weeks |-> weeks]
           /\ flat_result' =
                  <<flat_generate_sprint_timeline(start_date, total, members, weeks)>>
    /\ UNCHANGED <<timelineVars, pricingVars, configVars, riskVars, moscowVars,
                   capacityVars, plannerVars>>

FlatNext == FlatGenerateSprintTimeline

SpecFlat == FlatInit /\ [][FlatNext]_vars

(***************************************************************************)
(* Claims about the flat scheduler                                         *)
(***************************************************************************)
FlatReturned ==
    /\ call # <<>> /\ call.op = "SprintCalculator.generate_sprint_timeline"
    /\ flat_result[1].raised = ""

FlatVelocity == total_team_velocity_of(call.team_members)

FlatSprints == flat_result[1].sprints

\* ceil(T / V) sprints, each but the last of V points, the last the rest
CeilAllocation(total, velocity) ==
    /\ Len(FlatSprints) = QCeil(QDiv(total, velocity))
    /\ \A i \in 1..Len(FlatSprints) - 1 : FlatSprints[i].story_points = velocity
    /\ FlatSprints[Len(FlatSprints)].story_points
           = QSub(total, QMul(I(Len(FlatSprints) - 1), velocity))
    /\ \A i \in 1..Len(FlatSprints) : QLe(FlatSprints[i].story_points, velocity)

\* C18: for team velocity V > 0 and backlog T > 0 the flat scheduler emits
\* ceil(T / V) sprints, every one but the last of V points and the last of
\* the remainder, none above V.
C18_CeilSprints ==
    (FlatReturned /\ call.team_members # <<>> /\ QLt(I(0), FlatVelocity)
        /\ QLt(I(0), call.total_story_points))
        => CeilAllocation(call.total_story_points, FlatVelocity)

\* C18, where it agrees with the code: the same when T / V rounds up or is
\* whole.
C18_WhenRoundedUp ==
    (/\ FlatReturned /\ call.team_members # <<>> /\ QLt(I(0), FlatVelocity)
     /\ QLt(I(0), call.total_story_points)
     /\ round(QDiv(call.total_story_points, FlatVelocity))
            = QCeil(QDiv(call.total_story_points, FlatVelocity)))
        => CeilAllocation(call.total_story_points, FlatVelocity)

\* 26 points at velocity 10 came out as three sprints of 10, 10 and 6
C18_RoundedUpReached ==
    /\ FlatReturned
    /\ call.total_story_points = I(26) /\ FlatVelocity = I(10)
    /\ Len(FlatSprints) = 3
    /\ FlatSprints[3].story_points = I(6)
(***************************************************************************)
(* sprint_planner.Team and SprintPlanner.calculate_sprint_estimates        *)
(* The Team object is [members, sprint_length_weeks, sprint_overhead]; a   *)
(* member is [name, availability, story_points_per_sprint]                 *)
(***************************************************************************)
MaxMembers == 2       \* members added to one Team

default_sprint_length_weeks == 2
default_sprint_overhead == Q(15, 100)

\* Team(name) and Team(name, settings_config)
TeamChoices ==
    {[members |-> <<>>, sprint_length_weeks |-> weeks, sprint_overhead |-> overhead] :
        weeks \in {default_sprint_length_weeks, 3},
        overhead \in {default_sprint_overhead, I(0), I(1)}}

PlannerMemberChoices ==
    { [name |-> "Senior", availability |-> I(1), story_points_per_sprint |-> I(8)],
      [name |-> "Junior", availability |-> I(1), story_points_per_sprint |-> I(5)],
      [name |-> "Designer", availability |-> Q(1, 2), story_points_per_sprint |-> I(6)] }

PlannerTotalChoices == {I(0), I(1), I(40), Q(27, 2), I(100)}

\* sum(member.story_points_per_sprint * member.availability for member in ...)
RECURSIVE sum_effective_velocity(_)
sum_effective_velocity(members) ==
    IF members = <<>> THEN I(0)
    ELSE QAdd(sum_effective_velocity(SubSeq(members, 1, Len(members) - 1)),
              QMul(members[Len(members)].story_points_per_sprint,
                   members[Len(members)].availability))

\* a velocity without the overhead taken off
get_total_velocity_gross(t) == sum_effective_velocity(t.members)

get_total_velocity(t) ==
    QMul(sum_effective_velocity(t.members), QSub(I(1), t.sprint_overhead))

\* sum(member.availability for member in self.members)
RECURSIVE get_total_fte_of(_)
get_total_fte_of(members) ==
    IF members = <<>> THEN I(0)
    ELSE QAdd(get_total_fte_of(SubSeq(members, 1, Len(members) - 1)),
              members[Len(members)].availability)

get_total_fte(t) == get_total_fte_of(t.members)

\* a sprint count rounded to the nearest integer
sprints_needed_rounded(total_story_points, team_velocity) ==
    round(QDiv(total_story_points, team_velocity))

\* math.ceil(total_story_points / team_velocity)
sprints_needed_ceil(total_story_points, team_velocity) ==
    QCeil(QDiv(total_story_points, team_velocity))

weeks_per_month == Q(433, 100)

calculate_sprint_estimates(total_story_points, t) ==
    LET team_velocity == get_total_velocity(t)
    IN  IF QLe(team_velocity, I(0))
        THEN [sprints |-> 0, weeks |-> 0, months |-> I(0), team_velocity |-> I(0),
              error |-> "Team has no effective velocity"]
        ELSE LET sprints_needed ==
                     sprints_needed_ceil(total_story_points, team_velocity)
                 weeks_needed == sprints_needed * t.sprint_length_weeks
             IN  [sprints |-> sprints_needed,
                  weeks |-> weeks_needed,
                  months |-> QDiv(I(weeks_needed), weeks_per_month),
                  team_velocity |-> team_velocity,
                  total_story_points |-> total_story_points,
                  story_points_per_sprint |-> team_velocity]

PlannerInit ==
    /\ team \in TeamChoices
    /\ estimates = <<>>
    /\ call = <<>>
    /\ TimelineIdle /\ PricingIdle /\ ConfigIdle /\ RiskIdle
    /\ MoscowIdle /\ CapacityIdle /\ FlatIdle

PlannerOthers ==
    <<timelineVars, pricingVars, configVars, riskVars, moscowVars, capacityVars,
      flatVars>>

\* Team.add_member
AddMember ==
    /\ call = <<>>
    /\ Len(team.members) < MaxMembers
    /\ \E member \in PlannerMemberChoices :
           team' = [team EXCEPT !.members = Append(@, member)]
    /\ UNCHANGED <<estimates, call, PlannerOthers>>

GetTotalVelocity ==
    /\ call = <<>>
    /\ call' = [op |-> "get_total_velocity"]
    /\ estimates' = <<get_total_velocity(team)>>
    /\ UNCHANGED <<team, PlannerOthers>>

GetTotalFte ==
    /\ call = <<>>
    /\ call' = [op |-> "get_total_fte"]
    /\ estimates' = <<get_total_fte(team)>>
    /\ UNCHANGED <<team, PlannerOthers>>

CalculateSprintEstimates ==
    /\ call = <<>>
    /\ \E total_story_points \in PlannerTotalChoices :
           /\ call' = [op |-> "calculate_sprint_estimates",
                       total_story_points |-> total_story_points]
           /\ estimates' = <<calculate_sprint_estimates(total_story_points, team)>>
    /\ UNCHANGED <<team, PlannerOthers>>

PlannerNext ==
    \/ AddMember
    \/ GetTotalVelocity
    \/ GetTotalFte
    \/ CalculateSprintEstimates

SpecPlanner == PlannerInit /\ [][PlannerNext]_vars

(***************************************************************************)
(* Claims about SprintPlanner.calculate_sprint_estimates and Team          *)
(***************************************************************************)
Estimated == call # <<>> /\ call.op = "calculate_sprint_estimates"

\* (sum of story_points_per_sprint * availability) * (1 - sprint_overhead)
VelocityOf(t) ==
    QMul(QSum([i \in 1..Len(t.members) |->
                  QMul(t.members[i].story_points_per_sprint,
                       t.members[i].availability)]),
         QSub(I(1), t.sprint_overhead))

\* C19: with a total velocity v > 0 the estimate has sprints = ceil(T / v)
\* (sprints * v >= T > (sprints - 1) * v for T > 0), weeks = sprints *
\* sprint_length_weeks and team_velocity = v; with v <= 0 it has sprints 0,
\* weeks 0 and an 'error' entry.
C19_SprintEstimates ==
    Estimated =>
        LET v == VelocityOf(team)
            T == call.total_story_points
            result == estimates[1]
        IN  IF QLt(I(0), v)
            THEN /\ QLe(T, QMul(I(result.sprints), v))
                 /\ QLt(I(0), T) => QLt(QMul(I(result.sprints - 1), v), T)
                 /\ T = I(0) => result.sprints = 0
                 /\ result.weeks = result.sprints * team.sprint_length_weeks
                 /\ result.team_velocity = v
                 /\ "error" \notin DOMAIN result
            ELSE /\ result.sprints = 0
                 /\ result.weeks = 0
                 /\ "error" \in DOMAIN result

\* 40 points for Senior, Junior at the default overhead (velocity 11.05): 4
\* sprints; and an estimate for an empty team came back with an error entry
C19_Witness ==
    /\ Estimated
    /\ \/ /\ Len(team.members) = 2
          /\ VelocityOf(team) = Q(1105, 100)
          /\ call.total_story_points = I(40)
          /\ estimates[1].sprints = 4
       \/ /\ team.members = <<>>
          /\ call.total_story_points = I(40)
          /\ "error" \in DOMAIN estimates[1]
Velocity == call # <<>> /\ call.op = "get_total_velocity"

TotalFte == call # <<>> /\ call.op = "get_total_fte"

\* C20: get_total_velocity is (sum of story_points_per_sprint * availability)
\* * (1 - sprint_overhead), the overhead 0.15 by default, and 0 for an empty
\* team; get_total_fte is the sum of the availabilities.
C20_TotalVelocity ==
    /\ Velocity =>
           /\ estimates = <<VelocityOf(team)>>
           /\ team.sprint_overhead = Q(15, 100)
                  => estimates[1] = QMul(VelocityOf([team EXCEPT !.sprint_overhead = I(0)]),
                                         Q(85, 100))
           /\ team.members = <<>> => estimates = <<I(0)>>
    /\ TotalFte =>
           estimates = <<QSum([i \in 1..Len(team.members) |->
                                 team.members[i].availability])>>

\* Senior and Designer at the default overhead: velocity (8 + 3) * 0.85;
\* their availabilities add up to 3/2
C20_Witness ==
    /\ Len(team.members) = 2
    /\ team.members[1].name = "Senior" /\ team.members[2].name = "Designer"
    /\ \/ /\ Velocity /\ team.sprint_overhead = default_sprint_overhead
          /\ estimates = <<Q(935, 100)>>
       \/ TotalFte /\ estimates = <<Q(3, 2)>>
Filtered == call # <<>> /\ call.op = "filter_stories_by_moscow"

\* the positions of the stories whose priority is selected
KeptPositions ==
    {i \in 1..Len(call.stories) :
        get_moscow_priority(call.stories[i]) \in Range(call.selected_priorities)}

\* the j-th of these positions, counted from the front
KeptPosition(j) ==
    CHOOSE i \in KeptPositions : Cardinality({k \in KeptPositions : k <= i}) = j

CountOf(priority) ==
    Cardinality({i \in 1..Len(call.stories) :
                    get_moscow_priority(call.stories[i]) = priority})

\* C21: with a non-empty selection filter_stories_by_moscow returns exactly
\* the stories whose priority is selected, in their original order, and
\* per-priority counts over all stories that add up to len(stories); with
\* an empty selection it returns all stories.
C21_FilterByMoscow ==
    Filtered =>
        LET result == moscow_result[1]
        IN  IF call.selected_priorities = <<>>
            THEN result.filtered_stories = call.stories
            ELSE /\ Len(result.filtered_stories) = Cardinality(KeptPositions)
                 /\ \A j \in 1..Len(result.filtered_stories) :
                        result.filtered_stories[j] = call.stories[KeptPosition(j)]
                 /\ DOMAIN result.priority_counts = Range(available_priorities)
                 /\ \A p \in Range(available_priorities) :
                        result.priority_counts[p] = CountOf(p)
                 /\ result.priority_counts["Must Have"]
                        + result.priority_counts["Should Have"]
                        + result.priority_counts["Could Have"]
                        + result.priority_counts["Won't Have"] = Len(call.stories)

\* S-5, S-1, S-4 filtered for Won't Have and Must Have: S-5 and S-1 stay, in
\* this order, and the counts are 1, 0, 1, 1
C21_Witness ==
    /\ Filtered
    /\ call.selected_priorities = <<"Won't Have", "Must Have">>
    /\ Len(call.stories) = 3
    /\ call.stories[1].key = "S-5" /\ call.stories[2].key = "S-1"
    /\ call.stories[3].key = "S-4"
    /\ Len(moscow_result[1].filtered_stories) = 2
    /\ moscow_result[1].filtered_stories[1].key = "S-5"
    /\ moscow_result[1].filtered_stories[2].key = "S-1"
    /\ moscow_result[1].priority_counts["Could Have"] = 1
(***************************************************************************)
(* TimelineGenerator.add_holiday_range                                     *)
(***************************************************************************)
RangeLast == 6        \* the dates of a range lie in 0..RangeLast

RangeDates == 0..RangeLast

\* the loop of add_workdays_holiday_range, which skips Saturday and Sunday
RECURSIVE workdays_range_loop(_, _, _, _, _, _)
workdays_range_loop(hs, holidays_added, current_date, end_date, is_national, affected_members) ==
    IF current_date <= end_date
    THEN IF weekday(current_date) < 5
         THEN workdays_range_loop(
                  Append(hs, [date |-> current_date, is_national |-> is_national,
                              affected_members |-> affected_members]),
                  holidays_added + 1, current_date + 1, end_date, is_national,
                  affected_members)
         ELSE workdays_range_loop(hs, holidays_added, current_date + 1, end_date,
                                  is_national, affected_members)
    ELSE [holidays |-> hs, holidays_added |-> holidays_added]

\* the while loop, lines 168-182
RECURSIVE holiday_range_loop(_, _, _, _, _, _)
holiday_range_loop(hs, holidays_added, current_date, end_date, is_national, affected_members) ==
    IF current_date <= end_date
    THEN holiday_range_loop(
             Append(hs, [date |-> current_date, is_national |-> is_national,
                         affected_members |-> affected_members]),
             holidays_added + 1, current_date + 1, end_date, is_national,
             affected_members)
    ELSE [holidays |-> hs, holidays_added |-> holidays_added]

\* affected_members is <<>> for None and <<list>> for a list; the result is
\* the new holiday list and the returned value, <<>> for None
add_holiday_range(hs, start_date, end_date, is_national, affected_members) ==
    LET affected == IF affected_members = <<>> THEN <<>> ELSE affected_members[1]
    IN  IF start_date > end_date
        THEN [holidays |-> hs, returned |-> <<>>]
        ELSE LET done == holiday_range_loop(hs, 0, start_date, end_date,
                                            is_national, affected)
             IN  [holidays |-> done.holidays, returned |-> <<done.holidays_added>>]

RangeOptionChoices ==
    { [is_national |-> FALSE, affected_members |-> <<>>],
      [is_national |-> TRUE, affected_members |-> <<<<>>>>],
      [is_national |-> FALSE, affected_members |-> <<<<"Bob">>>>],
      [is_national |-> TRUE, affected_members |-> <<<<"Alice", "Bob">>>>] }

AddHolidayRange ==
    /\ pc = "idle" /\ call = <<>>
    /\ \E start_date \in RangeDates, end_date \in RangeDates,
          options \in RangeOptionChoices :
           LET result == add_holiday_range(holidays, start_date, end_date,
                                           options.is_national,
                                           options.affected_members)
           IN  /\ holidays' = result.holidays
               /\ call' = [op |-> "add_holiday_range", start_date |-> start_date,
                           end_date |-> end_date,
                           is_national |-> options.is_national,
                           affected_members |-> options.affected_members,
                           before |-> holidays, returned |-> result.returned]
    /\ UNCHANGED <<team_members, sprints, project_start_date, project_end_date,
                   pc, args, loc, ret>>
    /\ UNCHANGED <<pricingVars, configVars, riskVars, restVars>>

\* single holidays are added before the ranges
AddHolidayFirst == call = <<>> /\ AddCustomHoliday

HolidaysNext ==
    \/ AddHolidayFirst
    \/ AddHolidayRange

SpecHolidays == Init /\ [][HolidaysNext]_vars

RangeAdded == call # <<>> /\ call.op = "add_holiday_range"

GivenMembers ==
    IF call.affected_members = <<>> THEN <<>> ELSE call.affected_members[1]

\* C22: add_holiday_range with start <= end appends exactly one holiday per
\* calendar day of [start, end], in date order, each with the given
\* is_national flag and affected_members, and returns their number,
\* end - start + 1; with start > end it returns None and leaves the holiday
\* list unchanged.
C22_HolidayRange ==
    RangeAdded =>
        IF call.start_date <= call.end_date
        THEN LET days == call.end_date - call.start_date + 1
                 old == Len(call.before)
             IN  /\ call.returned = <<days>>
                 /\ Len(holidays) = old + days
                 /\ SubSeq(holidays, 1, old) = call.before
                 /\ \A i \in 1..days :
                        /\ holidays[old + i].date = call.start_date + i - 1
                        /\ holidays[old + i].is_national = call.is_national
                        /\ holidays[old + i].affected_members = GivenMembers
        ELSE call.returned = <<>> /\ holidays = call.before

\* Friday to Sunday for Bob after one single holiday: three more holidays,
\* the Saturday and the Sunday among them
C22_Witness ==
    /\ RangeAdded
    /\ call.start_date = 4 /\ call.end_date = 6
    /\ call.affected_members = <<<<"Bob">>>>
    /\ Len(call.before) = 1
    /\ call.returned = <<3>>
    /\ Len(holidays) = 4
    /\ holidays[3].date = 5 /\ holidays[4].date = 6

\* a range the wrong way round, on a list that has a holiday
C22_RefusedReached ==
    /\ RangeAdded
    /\ call.start_date = 4 /\ call.end_date = 0
    /\ call.before # <<>>
    /\ call.returned = <<>>
(***************************************************************************)
(* Claims about configuration values that make no sense                    *)
(***************************************************************************)
Positive(q) == QLt(I(0), q)

ValidPricing(engine) ==
    /\ Positive(engine.base_story_point_price)
    /\ Positive(engine.hourly_rate)
    /\ Positive(engine.hours_per_story_point)

CalledPrices == call # <<>> /\ call.op = "calculate_prices"

\* C23: calculate_prices on an engine whose base_story_point_price,
\* hourly_rate or hours_per_story_point is not positive ends in a validation
\* error: no price comes back.
C23_InvalidRejected ==
    CalledPrices =>
        \A i \in 1..Len(engines) :
            ~ValidPricing(engines[i]) => "base" \notin DOMAIN quotes[i]

\* with positive settings a quote with a base price is returned
C23_ValidPriced ==
    CalledPrices =>
        \A i \in 1..Len(engines) :
            ValidPricing(engines[i]) => "base" \in DOMAIN quotes[i]

\* 5 proven points at a price of 0 per point were quoted a fixed price of 0
C23_ZeroPriceReached ==
    /\ Priced("proven")
    /\ call.story_points = I(5)
    /\ engines[1].base_story_point_price = I(0)
    /\ quotes[1].fixed = I(0)
(***************************************************************************)
(* Claims about generate_sprint_timeline: the empty team, the allocation   *)
(***************************************************************************)
NoTeamReturned == pc = "done" /\ team_members = <<>>

C24_NothingStored ==
    NoTeamReturned =>
        /\ ret = <<>>
        /\ sprints = <<>>
        /\ project_start_date = <<>>
        /\ project_end_date = <<>>

C24_CallStep ==
    (pc = "idle" /\ pc' # "idle" /\ team_members = <<>>) =>
        /\ pc' = "done"
        /\ ret' = <<>>
        /\ UNCHANGED <<sprints, project_start_date, project_end_date>>

\* C24: generate_sprint_timeline with no team members returns an empty list
\* and leaves sprints, project_start_date and project_end_date unchanged.
C24_EmptyTeam == []C24_NothingStored /\ [][C24_CallStep]_vars

\* a backlog of 25 with holidays in the calendar and nobody on the team
C24_Witness ==
    /\ NoTeamReturned
    /\ args.total_story_points = I(25)
    /\ holidays # <<>>
    /\ ret = <<>>
\* C25: in a returned schedule every sprint except the last is allocated
\* exactly its team_velocity; only the last sprint can be allocated less.
C25_FullUntilLast ==
    Returned =>
        /\ \A i \in 1..(Len(ret) - 1) : ret[i].story_points = ret[i].team_velocity
        /\ Len(ret) >= 1 =>
               QLe(ret[Len(ret)].story_points, ret[Len(ret)].team_velocity)

\* one full-time member of velocity 10, no holidays, sprints of two weeks and
\* a backlog of 25: 10, 10 and 5
C25_Witness ==
    /\ Returned
    /\ team_members = <<Alice>>
    /\ holidays = <<>>
    /\ args.sprint_length_weeks = 2
    /\ args.total_story_points = I(25)
    /\ StoryPoints(ret) = <<I(10), I(10), I(5)>>
    /\ \A i \in 1..3 : ret[i].team_velocity = I(10)
(***************************************************************************)
(* RiskAssessor.determine_risk_profile on type-of-work strings with empty  *)
(* components                                                              *)
(***************************************************************************)
Blank(tag) == strip(tag) = <<>>
NonBlank(tag) == ~Blank(tag)

BlankTagChoices ==
    { Proven, Experimental, <<"o", "t", "h", "e", "r">>, <<>>, <<" ">> }

\* tag lists with an empty component
BlankTagLists ==
    {tags \in UNION {[1..n -> BlankTagChoices] : n \in 1..MaxTags} :
        \E i \in 1..Len(tags) : Blank(tags[i])}

BlankStory(value, labels, story_points) ==
    [type_of_work |-> [kind |-> "str", value |-> value],
     labels |-> labels, story_points |-> story_points]

\* the same story assessed twice: with the string as given, and with the
\* string whose empty components are removed
DetermineWithBlanks ==
    /\ call = <<>>
    /\ \E tags \in BlankTagLists, sep \in {<<",">>, <<",", " ">>},
          labels \in {<<>>, <<Proven>>}, story_points \in {<<>>, <<I(13)>>} :
           LET story == BlankStory(join(tags, sep), labels, story_points)
               cleaned == BlankStory(join(SelectSeq(tags, NonBlank), sep),
                                     labels, story_points)
           IN  /\ call' = [op |-> "determine_risk_profile, twice",
                           story |-> story, cleaned |-> cleaned]
               /\ risk_result' = <<determine_risk_profile(risk_priority, story),
                                   determine_risk_profile(risk_priority, cleaned)>>
    /\ UNCHANGED <<risk_priority, timelineVars, pricingVars, configVars, restVars>>

BlankNext == DetermineWithBlanks

SpecBlank == RiskInit /\ [][BlankNext]_vars

AssessedTwice == call # <<>> /\ call.op = "determine_risk_profile, twice"

\* C26: a type-of-work string with empty components is classified exactly
\* as the same string with the empty components removed.
C26_BlanksIgnored ==
    AssessedTwice => risk_result[1] = risk_result[2]

\* the keys of the highest priority, and the first of them
TopPriorityKeys ==
    {i \in 1..Len(risk_priority) :
        \A j \in 1..Len(risk_priority) :
            risk_priority[j].priority <= risk_priority[i].priority}

FirstTopKey == CHOOSE i \in TopPriorityKeys : \A j \in TopPriorityKeys : i <= j

\* what the code does: an empty component matches every key, so a string
\* that is not empty gets the profile of the highest priority
C26_BlankMatchesEveryKey ==
    (AssessedTwice /\ truthy(call.story.type_of_work)) =>
        risk_result[1] = normalize(risk_priority[FirstTopKey].risk_type)

\* 'proven,' came out as dependant and 'proven' as proven
C26_BlankReached ==
    /\ AssessedTwice
    /\ risk_priority = DefaultRiskPriority
    /\ call.story.type_of_work.value = Proven \o <<",">>
    /\ call.cleaned.type_of_work.value = Proven
    /\ risk_result = <<Dependant, Proven>>
(***************************************************************************)
(* Claims about the two working-day counters                               *)
(***************************************************************************)
MonFriOnly(member) == member.working_days = MonFri /\ member.custom_holidays = {}

CountedByCalculator ==
    /\ call # <<>>
    /\ call.op = "SprintCalculator.calculate_working_days"
    /\ MonFriOnly(call.member)

TimelineCount ==
    calculate_working_days(call.holidays, call.start_date, call.end_date,
                           call.member)

\* C27: for the same holiday list, any date range and a Monday-to-Friday
\* member without custom holidays, SprintCalculator.calculate_working_days
\* returns the count of TimelineGenerator.calculate_working_days.
C27_CountersAgree ==
    CountedByCalculator => days_result = <<TimelineCount>>

\* holidays as HolidayManager builds them: national ones for nobody by name,
\* the others for their members
ManagerStyle(hs) ==
    \A i \in 1..Len(hs) : hs[i].is_national <=> hs[i].affected_members = <<>>

C27_AgreeOnManagerHolidays ==
    (CountedByCalculator /\ ManagerStyle(call.holidays))
        => days_result = <<TimelineCount>>

\* Alice over the first week with one holiday that takes a day from her
C27_ManagerStyleReached ==
    /\ CountedByCalculator /\ ManagerStyle(call.holidays)
    /\ call.holidays # <<>>
    /\ call.member = Alice
    /\ call.start_date = 0 /\ call.end_date = 6
    /\ days_result = <<4>>
(***************************************************************************)
(* Claims about SprintCalculator.generate_sprint_timeline: exceptions and  *)
(* the length of a sprint                                                  *)
(***************************************************************************)
FlatCalled ==
    call # <<>> /\ call.op = "SprintCalculator.generate_sprint_timeline"

\* C28: for every non-empty team and every backlog >= 0, a team whose
\* velocities sum to 0 included, SprintCalculator.generate_sprint_timeline
\* returns a schedule without raising.
C28_FlatNeverRaises ==
    (FlatCalled /\ call.team_members # <<>>
        /\ QLe(I(0), call.total_story_points))
        => flat_result[1].raised = ""

\* with a velocity above 0 the call returns a schedule of at least one sprint
C28_PositiveVelocityReturns ==
    (FlatCalled /\ call.team_members # <<>> /\ QLt(I(0), FlatVelocity))
        => flat_result[1].raised = "" /\ Len(FlatSprints) >= 1

\* an empty backlog for a team of velocity 10: one sprint of 0 points
C28_EmptyBacklogReached ==
    /\ FlatCalled
    /\ call.total_story_points = I(0)
    /\ FlatVelocity = I(10)
    /\ flat_result[1].raised = ""
    /\ Len(FlatSprints) = 1
    /\ FlatSprints[1].story_points = I(0)
\* the weekdays of [start_date, end_date], both ends included
WeekdaysCovered(sprint) ==
    Cardinality({d \in sprint.start_date .. sprint.end_date : weekday(d) < 5})

\* C29: every sprint SprintCalculator.generate_sprint_timeline emits covers
\* exactly sprint_length_weeks * 5 weekdays from its start_date to its
\* end_date inclusive, for every start date.
C29_SprintWeekdays ==
    FlatReturned =>
        \A i \in 1..Len(FlatSprints) :
            WeekdaysCovered(FlatSprints[i]) = call.sprint_length_weeks * 5

\* what the code does: the end is sprint_length_weeks * 5 weekdays after the
\* start, so a sprint that starts on a weekday covers one weekday more
C29_OneMoreFromAWeekday ==
    FlatReturned =>
        \A i \in 1..Len(FlatSprints) :
            WeekdaysCovered(FlatSprints[i]) =
                call.sprint_length_weeks * 5
                    + (IF weekday(FlatSprints[i].start_date) < 5 THEN 1 ELSE 0)

\* a first sprint of one week from a Saturday ends on the Friday after, a
\* second from the Monday after that ends a week later, on a Monday
C29_WeekendStartReached ==
    /\ FlatReturned
    /\ call.start_date = 5 /\ call.sprint_length_weeks = 1
    /\ Len(FlatSprints) >= 2
    /\ FlatSprints[1].end_date = 11
    /\ WeekdaysCovered(FlatSprints[1]) = 5
    /\ FlatSprints[2].start_date = 14 /\ FlatSprints[2].end_date = 21
    /\ WeekdaysCovered(FlatSprints[2]) = 6
(***************************************************************************)
(* TimelineGenerator.generate_sprint_timeline as one call, on two          *)
(* generators that differ in one holiday                                   *)
(***************************************************************************)
\* the while loop, lines 281-314, run to its end: the list of sprints
RECURSIVE timeline_loop(_, _, _, _)
timeline_loop(hs, members, weeks, l) ==
    IF ~QLt(I(0), l.remaining_story_points) THEN l.sprints
    ELSE LET sprint_start == l.current_date
             sprint_end == l.current_date + (weeks * 7 - 1)
             capacity == team_capacity(hs, members, sprint_start, sprint_end)
             sprint_story_points ==
                 sprint_story_points_of(l.remaining_story_points, capacity)
             sprint == [number |-> l.sprint_number,
                        start_date |-> sprint_start,
                        end_date |-> sprint_end,
                        story_points |-> sprint_story_points,
                        team_velocity |-> capacity]
             next == [sprints |-> Append(l.sprints, sprint),
                      current_date |-> next_sprint_start(sprint_end),
                      remaining_story_points |->
                          QSub(l.remaining_story_points, sprint_story_points),
                      sprint_number |-> l.sprint_number + 1]
         IN  IF cap_reached(next.sprint_number) THEN next.sprints
             ELSE timeline_loop(hs, members, weeks, next)

generate_sprint_timeline(hs, members, start_date, total_story_points, weeks) ==
    IF members = <<>> THEN <<>>
    ELSE timeline_loop(hs, members, weeks,
                       [sprints |-> <<>>, current_date |-> start_date,
                        remaining_story_points |-> total_story_points,
                        sprint_number |-> 1])

\* backlogs that a team with capacity finishes in a few sprints; a team
\* without capacity runs into the cap of 50 sprints with any of them
MoreTotalChoices == {I(0), I(25), Q(15, 2)}

HolidayLists == UNION {[1..n -> HolidayChoices] : n \in 0..MaxHolidays}
TeamLists == UNION {[1..n -> MemberChoices] : n \in 1..MaxTeam}

\* the same call on a generator with the holidays hs and on one that was
\* given one more holiday by add_custom_holiday
GenerateWithOneMoreHoliday ==
    /\ pc = "idle" /\ call = <<>>
    /\ \E members \in TeamLists, hs \in HolidayLists, holiday \in HolidayChoices,
          start_date \in StartDates, total \in MoreTotalChoices,
          weeks \in SprintWeeks :
           call' = [op |-> "generate_sprint_timeline, twice",
                    team_members |-> members, holidays |-> hs,
                    holiday |-> holiday, start_date |-> start_date,
                    total_story_points |-> total, sprint_length_weeks |-> weeks,
                    before |-> generate_sprint_timeline(hs, members, start_date,
                                                        total, weeks),
                    after |-> generate_sprint_timeline(Append(hs, holiday),
                                                       members, start_date,
                                                       total, weeks)]
    /\ UNCHANGED <<timelineVars, pricingVars, configVars, riskVars, restVars>>

MoreHolidaysNext == GenerateWithOneMoreHoliday

SpecMoreHolidays == Init /\ [][MoreHolidaysNext]_vars

GeneratedTwice == call # <<>> /\ call.op = "generate_sprint_timeline, twice"

\* C30: one more holiday never raises the team_velocity of a sprint's date
\* range and never lowers the number of sprints returned; a holiday that is
\* on the list already changes nothing.
C30_HolidaysNeverHelp ==
    GeneratedTwice =>
        /\ Len(call.after) >= Len(call.before)
        /\ \A i \in 1..Len(call.before) :
               /\ call.after[i].start_date = call.before[i].start_date
               /\ call.after[i].end_date = call.before[i].end_date
               /\ QLe(call.after[i].team_velocity, call.before[i].team_velocity)
        /\ call.holiday \in Range(call.holidays) => call.after = call.before

\* Alice and Bob, 25 points in sprints of one week: the national holiday of
\* day 1 lowers the first velocity and takes a sprint more
C30_Witness ==
    /\ GeneratedTwice
    /\ call.team_members = <<Alice, Bob>>
    /\ call.holidays = <<>>
    /\ call.holiday.date = 1 /\ call.holiday.affected_members = <<>>
    /\ call.start_date = 0 /\ call.sprint_length_weeks = 1
    /\ call.total_story_points = I(25)
    /\ QLt(call.after[1].team_velocity, call.before[1].team_velocity)
    /\ Len(call.after) > Len(call.before)

\* a holiday given a second time
C30_DuplicateReached ==
    /\ GeneratedTwice
    /\ call.holidays = <<call.holiday>>
    /\ call.team_members = <<Alice>>
    /\ Len(call.before) >= 2
    /\ call.after = call.before

====
